---- MODULE Spec2Model ----
(***************************************************************************)
(* Client-side gRPC transport core of tonic: the grpc-timeout parser, the  *)
(* deadline middleware (GrpcTimeout), the modifier middleware (ModifierFn) *)
(* and the HTTP/2 send endpoint (SendRequest) of a Connection's stack, the *)
(* one-shot layer (LayerFnOnce) the stack is built with, the connection    *)
(* factory (MakeSendRequestService) and the reconnect wrapper under the    *)
(* stack, and the call dispatcher (Grpc) that sends requests through it.   *)
(***************************************************************************)
EXTENDS Integers, Sequences, FiniteSets, TLC

(***************************************************************************)
(* Bounds of the model.                                                    *)
(***************************************************************************)
\* longest header value enumerated exhaustively over Alphabet
MaxLen == 3
\* longest run of digits enumerated in front of a final character
MaxDigits == 20

(***************************************************************************)
(* Option<T>                                                               *)
(***************************************************************************)
None == [some |-> FALSE]
Some(x) == [some |-> TRUE, val |-> x]

(***************************************************************************)
(* Header values are sequences of bytes; a byte is written as the one      *)
(* character string it denotes, "x80" stands for a byte outside ASCII.     *)
(***************************************************************************)
DigitChars == {"0", "1", "2", "3", "4", "5", "6", "7", "8", "9"}
NonAsciiChars == {"x80"}
\* the digits the inputs are built from
ModelDigits == {"0", "1", "9"}
UnitChars == {"H", "M", "S", "m", "u", "n"}
Alphabet == ModelDigits \cup UnitChars \cup {"f", "+", "-", " "} \cup NonAsciiChars

RECURSIVE Strings(_)
Strings(n) ==
    IF n = 0 THEN {<<>>}
    ELSE LET shorter == Strings(n - 1)
         IN  shorter \cup {Append(s, ch) : s \in {t \in shorter : Len(t) = n - 1}, ch \in Alphabet}

DigitRuns == {[i \in 1..k |-> d] : k \in 1..MaxDigits, d \in ModelDigits}

\* the header values the parser is applied to
HeaderValues ==
    Strings(MaxLen)
    \cup {Append(r, ch) : r \in DigitRuns, ch \in Alphabet}
    \cup {<<"+">> \o Append(r, ch) : r \in DigitRuns, ch \in Alphabet}

(***************************************************************************)
(* u64 arithmetic.  A u64 is the sequence of its decimal digits, most      *)
(* significant first, without leading zeros (zero is the empty sequence),  *)
(* so that no value of the program exceeds the checker's integers.         *)
(***************************************************************************)
U64_MAX == <<1,8,4,4,6,7,4,4,0,7,3,7,0,9,5,5,1,6,1,5>>
TWO_POW_64 == <<1,8,4,4,6,7,4,4,0,7,3,7,0,9,5,5,1,6,1,6>>

Front(s) == SubSeq(s, 1, Len(s) - 1)
Last(s) == s[Len(s)]

RECURSIVE Norm(_)
Norm(ds) == IF ds # <<>> /\ Head(ds) = 0 THEN Norm(Tail(ds)) ELSE ds

RECURSIVE LexLess(_, _)
LexLess(a, b) ==
    IF a = <<>> THEN FALSE
    ELSE IF Head(a) # Head(b) THEN Head(a) < Head(b)
    ELSE LexLess(Tail(a), Tail(b))

\* a < b for normalised digit sequences
BigLess(a, b) ==
    IF Len(a) # Len(b) THEN Len(a) < Len(b) ELSE LexLess(a, b)

BigLeq(a, b) == a = b \/ BigLess(a, b)

RECURSIVE NatDigits(_)
NatDigits(n) == IF n = 0 THEN <<>> ELSE Append(NatDigits(n \div 10), n % 10)

RECURSIVE MulCarry(_, _, _)
MulCarry(ds, k, carry) ==
    IF ds = <<>> THEN NatDigits(carry)
    ELSE LET p == Last(ds) * k + carry
         IN  Append(MulCarry(Front(ds), k, p \div 10), p % 10)

\* the mathematical product of a digit sequence and a small factor
BigMul(ds, k) == Norm(MulCarry(ds, k, 0))

RECURSIVE SubBorrow(_, _, _)
SubBorrow(a, b, borrow) ==
    IF a = <<>> THEN <<>>
    ELSE LET bd == IF b = <<>> THEN 0 ELSE Last(b)
             d  == Last(a) - bd - borrow
         IN  Append(SubBorrow(Front(a), IF b = <<>> THEN <<>> ELSE Front(b),
                              IF d < 0 THEN 1 ELSE 0),
                    IF d < 0 THEN d + 10 ELSE d)

\* a - b, for b <= a
BigSub(a, b) == Norm(SubBorrow(a, b, 0))

RECURSIVE BigReduce(_, _)
BigReduce(a, m) == IF BigLess(a, m) THEN a ELSE BigReduce(BigSub(a, m), m)

\* a modulo 2^64, for a < 10000 * 2^64
WrapU64(a) ==
    BigReduce(BigReduce(BigReduce(BigReduce(a,
        TWO_POW_64 \o <<0, 0, 0>>), TWO_POW_64 \o <<0, 0>>), TWO_POW_64 \o <<0>>), TWO_POW_64)

\* u64 `*`: overflow panics when the build has overflow checks, wraps otherwise
U64Mul(x, k, checks) ==
    LET p == BigMul(x, k)
    IN  IF BigLeq(p, U64_MAX) THEN [panic |-> FALSE, val |-> p]
        ELSE IF checks THEN [panic |-> TRUE]
        ELSE [panic |-> FALSE, val |-> WrapU64(p)]

DigitVal(ch) ==
    CASE ch = "0" -> 0 [] ch = "1" -> 1 [] ch = "2" -> 2 [] ch = "3" -> 3
      [] ch = "4" -> 4 [] ch = "5" -> 5 [] ch = "6" -> 6 [] ch = "7" -> 7
      [] ch = "8" -> 8 [] ch = "9" -> 9

\* str::parse::<u64>: an optional "+", then one or more decimal digits, the
\* value not above u64::MAX
U64Parse(s) ==
    IF s = <<>> THEN None
    ELSE IF s \in {<<"+">>, <<"-">>} THEN None
    ELSE LET digits == IF Head(s) = "+" THEN Tail(s) ELSE s
         IN  IF \E i \in 1..Len(digits) : digits[i] \notin DigitChars THEN None
             ELSE LET v == Norm([i \in 1..Len(digits) |-> DigitVal(digits[i])])
                  IN  IF BigLeq(v, U64_MAX) THEN Some(v) ELSE None

(***************************************************************************)
(* std::time::Duration: whole seconds (u64) and nanoseconds below 10^9.    *)
(***************************************************************************)
Duration(secs, nanos) == [secs |-> secs, nanos |-> nanos]

RECURSIVE DigitsNat(_)
DigitsNat(ds) == IF ds = <<>> THEN 0 ELSE DigitsNat(Front(ds)) * 10 + Last(ds)

\* Duration::from_secs
from_secs(x) == Duration(x, 0)

\* splits x into x div 10^k and x mod 10^k
DivPow10(x, k) == IF Len(x) <= k THEN <<>> ELSE SubSeq(x, 1, Len(x) - k)
ModPow10(x, k) == IF Len(x) <= k THEN DigitsNat(x) ELSE DigitsNat(SubSeq(x, Len(x) - k + 1, Len(x)))

\* Duration::from_millis, from_micros, from_nanos
from_millis(x) == Duration(DivPow10(x, 3), ModPow10(x, 3) * 1000000)
from_micros(x) == Duration(DivPow10(x, 6), ModPow10(x, 6) * 1000)
from_nanos(x) == Duration(DivPow10(x, 9), ModPow10(x, 9))

\* Ord for Duration
DurLess(a, b) ==
    IF a.secs # b.secs THEN BigLess(a.secs, b.secs) ELSE a.nanos < b.nanos
DurLeq(a, b) == a = b \/ DurLess(a, b)
\* std::cmp::min
DurMin(a, b) == IF DurLeq(a, b) THEN a ELSE b

(***************************************************************************)
(* try_parse_grpc_timeout                                                  *)
(***************************************************************************)
SECONDS_IN_HOUR == 60 * 60
SECONDS_IN_MINUTE == 60
\* a variant without a useful cap on the digits
MAX_TIMEOUT_DIGITS_none == MaxDigits
\* gRPC spec: TimeoutValue is at most 8 digits
MAX_TIMEOUT_DIGITS == 8

Ok(x) == [tag |-> "Ok", val |-> x]
Err(x) == [tag |-> "Err", val |-> x]
Panic == [tag |-> "Panic"]

\* HeaderValue::to_str succeeds only on visible ASCII
to_str_ok(val) == \A i \in 1..Len(val) : val[i] \notin NonAsciiChars

\* a variant that takes "M" for milliseconds and "m" for minutes
unit_duration_swapped(timeout_value, timeout_unit, val, checks) ==
    CASE timeout_unit = "H" ->
           LET p == U64Mul(timeout_value, SECONDS_IN_HOUR, checks)
           IN  IF p.panic THEN Panic ELSE Ok(Some(from_secs(p.val)))
      [] timeout_unit = "m" ->
           LET p == U64Mul(timeout_value, SECONDS_IN_MINUTE, checks)
           IN  IF p.panic THEN Panic ELSE Ok(Some(from_secs(p.val)))
      [] timeout_unit = "S" -> Ok(Some(from_secs(timeout_value)))
      [] timeout_unit = "M" -> Ok(Some(from_millis(timeout_value)))
      [] timeout_unit = "u" -> Ok(Some(from_micros(timeout_value)))
      [] timeout_unit = "n" -> Ok(Some(from_nanos(timeout_value)))
      [] OTHER -> Err(val)

\* the `match timeout_unit` of try_parse_grpc_timeout
unit_duration(timeout_value, timeout_unit, val, checks) ==
    CASE timeout_unit = "H" ->
           LET p == U64Mul(timeout_value, SECONDS_IN_HOUR, checks)
           IN  IF p.panic THEN Panic ELSE Ok(Some(from_secs(p.val)))
      [] timeout_unit = "M" ->
           LET p == U64Mul(timeout_value, SECONDS_IN_MINUTE, checks)
           IN  IF p.panic THEN Panic ELSE Ok(Some(from_secs(p.val)))
      [] timeout_unit = "S" -> Ok(Some(from_secs(timeout_value)))
      [] timeout_unit = "m" -> Ok(Some(from_millis(timeout_value)))
      [] timeout_unit = "u" -> Ok(Some(from_micros(timeout_value)))
      [] timeout_unit = "n" -> Ok(Some(from_nanos(timeout_value)))
      [] OTHER -> Err(val)

\* hdr is headers.get(GRPC_TIMEOUT_HEADER); checks is the build's
\* overflow-checks setting
try_parse_grpc_timeout(hdr, checks) ==
    IF ~hdr.some THEN Ok(None)
    ELSE LET val == hdr.val
         IN  IF ~to_str_ok(val) THEN Err(val)
             ELSE IF val = <<>> THEN Err(val)
             ELSE LET timeout_value == SubSeq(val, 1, Len(val) - 1)
                      timeout_unit  == val[Len(val)]
                  IN  IF Len(timeout_value) > MAX_TIMEOUT_DIGITS THEN Err(val)
                      ELSE LET n == U64Parse(timeout_value)
                           IN  IF ~n.some THEN Err(val)
                               ELSE unit_duration(n.val, timeout_unit, val, checks)

(***************************************************************************)
(* Bounds and inputs of the call pipeline.                                 *)
(***************************************************************************)
\* the clock stops after this many seconds
MaxClock == 3

Calls == {1, 2}
\* the call of the runs with a single call
SoloCalls == {1}

h0S == <<"0", "S">>
h1S == <<"1", "S">>
h2S == <<"2", "S">>
h1M == <<"1", "M">>
hBad == <<"1", "f">>
hLong == <<"1", "1", "1", "1", "1", "1", "1", "1", "1", "S">>

\* grpc-timeout headers of the submitted requests
RequestTimeouts ==
    {None, Some(h0S), Some(h1S), Some(h2S), Some(h1M), Some(hBad), Some(hLong)}
\* endpoint.timeout
ServerTimeouts == {None, Some(from_secs(<<1>>)), Some(from_secs(<<2>>))}

\* http::Request reduced to what the stack reads and writes
Request(timeout, origin, user_agent) ==
    [timeout |-> timeout, origin |-> origin, user_agent |-> user_agent]

Requests == {Request(t, "caller", None) : t \in RequestTimeouts}

\* the requests of the runs with several calls
ConcRequests == {Request(t, "caller", None) : t \in {None, Some(h1S)}}

\* user-supplied modifiers: what they do to the request and whether their
\* future is pending when first polled.  The first is modifier_fn::default.
CustomModifiers ==
    { [kind |-> "identity", pends |-> FALSE],
      [kind |-> "identity", pends |-> TRUE],
      [kind |-> "set_timeout", pends |-> TRUE],
      [kind |-> "remove_timeout", pends |-> FALSE] }

\* Endpoint: uri, override origin, user agent, timeout ceiling and the limits
Endpoints ==
    [uri : {"endpoint-uri"}, origin : {None}, user_agent : {"tonic"},
     timeout : ServerTimeouts, concurrency_limit : BOOLEAN, rate_limit : BOOLEAN]

TransportError == Err("transport")
\* the error of a request on an HTTP/2 session that is gone
SessionClosed == Err("connection closed")
IsSessionClosed(r) == r.tag = "Err" /\ r.val = "connection closed"
TimeoutExpired == Err("TimeoutExpired")
HttpResponse == Ok("response")

VARIABLES
    headers,          \* parser: headers.get(GRPC_TIMEOUT_HEADER)
    parsed,           \* parser: result of try_parse_grpc_timeout, None before
    overflow_checks,  \* whether the build panics on integer overflow
    endpoint,         \* the Endpoint the Connection was built from
    modifier_fn,      \* ModifierFn.modifier_fn of each modifier layer
    now,              \* the clock, in seconds
    calls,            \* per call: its response future and what it did
    builder,          \* the LayerFnOnce layers of the stack and the service built
    grpc_config,      \* whether the build has the feature "grpc_config"
    configs,          \* the GrpcConfig allocations behind the Arcs
    clients,          \* the Grpc clients: which allocation each one holds
    rpcs,             \* per call: what the dispatcher did for it
    reconnect,        \* the reconnect wrapper under the stack
    attempts,         \* the futures of MakeSendRequestService::call, in order
    tasks,            \* the connection-driver tasks spawned on the executor
    connection        \* how the Connection was made and what the caller got

\* the state of the Grpc dispatcher
dispatcher == <<grpc_config, configs, clients, rpcs>>

\* the connection factory's futures, the driver tasks and the Connection
transport == <<attempts, tasks, connection>>

vars == <<headers, parsed, overflow_checks, endpoint, modifier_fn, now, calls,
          builder, dispatcher, reconnect, transport>>

(***************************************************************************)
(* The stack of a Connection.                                              *)
(***************************************************************************)
ModifierLayers == {"AddOrigin", "UserAgent", "Custom"}

\* a closure: the values it captured, and whether it has been called (FnOnce)
Closure(name, captured) == [name |-> name, captured |-> captured, consumed |-> FALSE]

\* a variant with the user-supplied modifier as the first modifier layer
Stack_custom_first(ep) ==
    (IF ep.concurrency_limit THEN <<"ConcurrencyLimit">> ELSE <<>>)
    \o (IF ep.rate_limit THEN <<"RateLimit">> ELSE <<>>)
    \o <<"Custom", "AddOrigin", "UserAgent", "GrpcTimeout", "Reconnect", "SendRequest">>

\* Connection::new_with_modifier_fn: the layers, outermost first
Stack(ep) ==
    (IF ep.concurrency_limit THEN <<"ConcurrencyLimit">> ELSE <<>>)
    \o (IF ep.rate_limit THEN <<"RateLimit">> ELSE <<>>)
    \o <<"AddOrigin", "UserAgent", "Custom", "GrpcTimeout", "Reconnect", "SendRequest">>

\* Connection::new_with_modifier_fn: the closures moved into the modifier layers
StackModifiers(ep, custom_modifier) ==
    [l \in ModifierLayers |->
        CASE l = "AddOrigin" -> Closure(l, IF ep.origin.some THEN ep.origin.val ELSE ep.uri)
          [] l = "UserAgent" -> Closure(l, ep.user_agent)
          [] l = "Custom" -> Closure(l, custom_modifier)]

\* AddOrigin::to_request_fn: rewrites scheme and authority
AddOrigin(origin, req) == [req EXCEPT !.origin = origin]

\* UserAgent::to_request_fn: sets the user-agent header
UserAgent(user_agent, req) ==
    [req EXCEPT !.user_agent =
        IF @.some THEN Some(@.val \o <<user_agent>>) ELSE Some(<<user_agent>>)]

\* the user-supplied modifier
Custom(m, req) ==
    CASE m.kind = "identity" -> req
      [] m.kind = "set_timeout" -> [req EXCEPT !.timeout = Some(h1S)]
      [] m.kind = "remove_timeout" -> [req EXCEPT !.timeout = None]

\* modifier_fn(input): the request the modifier's future yields
ModifierOutput(f, req) ==
    CASE f.name = "AddOrigin" -> AddOrigin(f.captured, req)
      [] f.name = "UserAgent" -> UserAgent(f.captured, req)
      [] f.name = "Custom" -> Custom(f.captured, req)

\* whether the modifier's future is pending when first polled
ModifierPends(f) == f.name = "Custom" /\ f.captured.pends

\* a variant that moves the stored modifier into the call
ModifierFn_async_call_take(stored) ==
    [stored |-> [stored EXCEPT !.consumed = TRUE],
     step |-> [kind |-> "modifier", f |-> stored]]

\* ModifierFn::async_call: the stored modifier afterwards, and the step
\* `modifier_fn(input.await).await` added to the request future, run by a clone
ModifierFn_async_call(stored) ==
    [stored |-> stored, step |-> [kind |-> "modifier", f |-> stored]]

\* GrpcTimeout::async_call: the step added to the request future
GrpcTimeout_async_call(server_timeout) ==
    [kind |-> "deadline", server_timeout |-> server_timeout]

\* SendRequest::async_call: `send_request.send_request(req.await)`
SendRequest_async_call == [kind |-> "send"]

\* what a layer's async_call adds to the in-flight request future
LayerSteps(layer, ep, mf) ==
    CASE layer \in ModifierLayers -> <<ModifierFn_async_call(mf[layer]).step>>
      [] layer = "GrpcTimeout" -> <<GrpcTimeout_async_call(ep.timeout)>>
      [] layer = "SendRequest" -> <<SendRequest_async_call>>
      [] OTHER -> <<>>

RECURSIVE StepsOf(_, _, _)
StepsOf(stack, ep, mf) ==
    IF stack = <<>> THEN <<>>
    ELSE LayerSteps(Head(stack), ep, mf) \o StepsOf(Tail(stack), ep, mf)

(***************************************************************************)
(* LayerFnOnce: a tower Layer around a service constructor that runs once. *)
(***************************************************************************)
\* most calls of layer() on one LayerFnOnce
MaxLayerCalls == 2

\* Option::expect
expect(opt, msg) == IF opt.some THEN Ok(opt.val) ELSE [tag |-> "Panic", val |-> msg]

\* LayerFnOnce::new
LayerFnOnce_new(f) == [f |-> Some(f)]

\* ModifierFn::new: the modifier service around inner, holding the modifier
ModifierFn_new(inner, mf) == [service |-> <<mf.name>> \o inner, modifier_fn |-> mf]

\* ModifierFn::new_layer_once: the constructor `|inner| Self::new(inner,
\* modifier_fn)`, which captures the modifier, inside a LayerFnOnce
ModifierFn_new_layer_once(mf) == LayerFnOnce_new([modifier_fn |-> mf])

\* a variant that leaves the constructor in the layer
LayerFnOnce_layer_keep(self, inner) ==
    LET f == expect(self.f, "LayerFnOnce used more than once")
    IN  [self |-> self,
         out |-> IF f.tag = "Ok" THEN Ok(ModifierFn_new(inner, f.val.modifier_fn)) ELSE f]

\* LayerFnOnce::layer: the layer afterwards, and the service f(inner) or the
\* panic of expect
LayerFnOnce_layer(self, inner) ==
    LET f == expect(self.f, "LayerFnOnce used more than once")
    IN  [self |-> [self EXCEPT !.f = None],
         out |-> IF f.tag = "Ok" THEN Ok(ModifierFn_new(inner, f.val.modifier_fn)) ELSE f]

\* the layers of the stack below the modifier layers
BaseService == <<"GrpcTimeout", "Reconnect", "SendRequest">>

\* Connection::new_with_modifier_fn: the ServiceBuilder before stack.layer(conn)
NewBuilder(mf) ==
    [layers |-> [l \in ModifierLayers |-> ModifierFn_new_layer_once(mf[l])],
     service |-> BaseService,
     uses |-> [l \in ModifierLayers |-> <<>>]]

\* Connection::new_with_modifier_fn: stack.layer(conn) applies the innermost
\* layer first, every LayerFnOnce once
Built(ep, mf) ==
    LET b == NewBuilder(mf)
        c == LayerFnOnce_layer(b.layers["Custom"], b.service)
        u == LayerFnOnce_layer(b.layers["UserAgent"], c.out.val.service)
        a == LayerFnOnce_layer(b.layers["AddOrigin"], u.out.val.service)
    IN  [layers |-> [l \in ModifierLayers |->
                        CASE l = "Custom" -> c.self
                          [] l = "UserAgent" -> u.self
                          [] l = "AddOrigin" -> a.self],
         service |-> (IF ep.concurrency_limit THEN <<"ConcurrencyLimit">> ELSE <<>>)
                     \o (IF ep.rate_limit THEN <<"RateLimit">> ELSE <<>>)
                     \o a.out.val.service,
         uses |-> [l \in ModifierLayers |->
                        CASE l = "Custom" -> <<c.out>>
                          [] l = "UserAgent" -> <<u.out>>
                          [] l = "AddOrigin" -> <<a.out>>]]

(***************************************************************************)
(* The Grpc dispatcher, before any client exists.                          *)
(***************************************************************************)
Clients == {1, 2}

\* a call the dispatcher has not been asked to make
IdleRpc ==
    [ state      |-> "idle",  \* idle, awaiting, returned, panicked
      shape      |-> "none",  \* unary, client_streaming, server_streaming, streaming
      client     |-> 0,       \* the client the call borrows
      config     |-> None,    \* the configuration the getters returned at the start
      request    |-> None,    \* the caller's Request
      path       |-> <<>>,    \* the method's PathAndQuery
      http       |-> None,    \* the request handed to the inner service
      encode     |-> None,    \* what EncodeBody::new_client was given
      streamed   |-> None,    \* what streaming returned
      body_reads |-> 0,       \* frames and trailers read from the response body
      result     |-> None,    \* what the call returned
      delivered  |-> <<>> ]   \* what the returned stream has yielded so far

\* the calls are made on the Connection itself
NoDispatcher ==
    /\ grpc_config = TRUE
    /\ configs = <<>>
    /\ clients = [k \in Clients |-> None]
    /\ rpcs = [c \in Calls |-> IdleRpc]

(***************************************************************************)
(* The connection factory and the reconnect wrapper.                       *)
(***************************************************************************)
\* most invocations of the connection factory on one Connection
MaxAttempts == 3

PollPending == [tag |-> "Pending"]

\* what the connector's future and the handshake can resolve to
ConnectorOutcomes == {Ok("io"), Err("connect")}
HandshakeOutcomes == {Ok("session"), Err("handshake")}

\* MakeSendRequestService::call: `self.connector.call(req)` runs at once, the
\* rest is the boxed future
MakeSendRequestService_call(uri) ==
    [ uri       |-> uri,          \* the Uri the connector was called with
      stage     |-> "connector",  \* connector, handshake, done
      io        |-> None,         \* what the connector's future resolved to
      handshake |-> None,         \* what builder.handshake(io) resolved to
      output    |-> None,         \* the output of the boxed future
      trace     |-> <<"connector">> ]   \* what the factory did, in order

\* the SendRequest handle of session s
SendRequest_from(s) == Ok([session |-> s])

\* the driver task `conn.await` of session s
DriverTask(s) == [session |-> s, state |-> "running", result |-> None, logged |-> <<>>]

\* a variant that spawns the driver as soon as the I/O is there
MakeSendRequestService_poll_spawn_early(fut, s) ==
    LET io == IF fut.stage = "connector" /\ fut.io.some
              THEN IF fut.io.val.tag = "Ok"
                   THEN [fut |-> [fut EXCEPT !.stage = "handshake",
                                             !.trace = @ \o <<"handshake", "spawn">>],
                         spawned |-> <<DriverTask(s)>>]
                   ELSE [fut |-> [fut EXCEPT !.stage = "done", !.output = Some(fut.io.val)],
                         spawned |-> <<>>]
              ELSE [fut |-> fut, spawned |-> <<>>]
    IN  IF io.fut.stage = "handshake" /\ io.fut.handshake.some
        THEN IF io.fut.handshake.val.tag = "Ok"
             THEN [fut |-> [io.fut EXCEPT !.stage = "done",
                                          !.output = Some(SendRequest_from(s)),
                                          !.trace = @ \o <<"return">>],
                   spawned |-> io.spawned]
             ELSE [fut |-> [io.fut EXCEPT !.stage = "done",
                                          !.output = Some(io.fut.handshake.val)],
                   spawned |-> io.spawned]
        ELSE io

\* one poll of the boxed future of MakeSendRequestService::call, which would
\* establish session s: the future afterwards and the tasks it spawned
MakeSendRequestService_poll(fut, s) ==
    LET \* let io = fut.await.map_err(Into::into)?;
        io == IF fut.stage = "connector" /\ fut.io.some
              THEN IF fut.io.val.tag = "Ok"
                   THEN [fut EXCEPT !.stage = "handshake", !.trace = Append(@, "handshake")]
                   ELSE [fut EXCEPT !.stage = "done", !.output = Some(fut.io.val)]
              ELSE fut
    IN  \* let (send_request, conn) = builder.handshake(io).await?;
        IF io.stage = "handshake" /\ io.handshake.some
        THEN IF io.handshake.val.tag = "Ok"
             THEN \* Executor::execute(.. conn.await ..); Ok(SendRequest::from(send_request))
                  [fut |-> [io EXCEPT !.stage = "done",
                                      !.output = Some(SendRequest_from(s)),
                                      !.trace = @ \o <<"spawn", "return">>],
                   spawned |-> <<DriverTask(s)>>]
             ELSE [fut |-> [io EXCEPT !.stage = "done", !.output = Some(io.handshake.val)],
                   spawned |-> <<>>]
        ELSE [fut |-> io, spawned |-> <<>>]

\* the driver task's future resolves: `if let Err(e) = conn.await { debug!(..) }`
DriverTask_end(task, outcome) ==
    [task EXCEPT !.state = "finished",
                 !.result = Some(outcome),
                 !.logged = IF outcome.tag = "Err"
                            THEN Append(@, "connection task error") ELSE @]

\* Reconnect: Idle, Connecting(future) or Ready(send)
ReconnectState(state, target, is_lazy, future, send) ==
    [ state   |-> state,
      target  |-> target,   \* the Uri the factory is called with
      is_lazy |-> is_lazy,
      future  |-> future,   \* Connecting: the factory's future (index in attempts)
      send    |-> send ]    \* Ready: the session of the SendRequest held

\* Idle to Connecting: the factory is called with the target
Reconnect_connect(rc, atts) ==
    [rc |-> [rc EXCEPT !.state = "Connecting", !.future = Len(atts) + 1],
     atts |-> Append(atts, MakeSendRequestService_call(rc.target))]

\* Reconnect::new: Idle if lazy, otherwise eagerly Connecting
Reconnect_new(target, is_lazy) ==
    LET idle == ReconnectState("Idle", target, is_lazy, 0, 0) IN
    IF is_lazy THEN [rc |-> idle, atts |-> <<>>] ELSE Reconnect_connect(idle, <<>>)

\* a variant that keeps the failed future
Reconnect_poll_ready_keep_failed(rc, atts, tks) ==
    LET begun == IF rc.state = "Idle" THEN Reconnect_connect(rc, atts)
                 ELSE [rc |-> rc, atts |-> atts]
        a == begun.rc.future
    IN  IF begun.rc.state = "Ready"
        THEN [rc |-> rc, atts |-> atts, tks |-> tks, ret |-> Ok("ready")]
        ELSE LET p == MakeSendRequestService_poll(begun.atts[a], a)
                 polled == [begun.atts EXCEPT ![a] = p.fut]
                 spawned == tks \o p.spawned
             IN  CASE ~p.fut.output.some ->
                        [rc |-> begun.rc, atts |-> polled, tks |-> spawned, ret |-> PollPending]
                   [] p.fut.output.some /\ p.fut.output.val.tag = "Ok" ->
                        [rc |-> [begun.rc EXCEPT !.state = "Ready", !.future = 0,
                                                 !.send = p.fut.output.val.val.session],
                         atts |-> polled, tks |-> spawned, ret |-> Ok("ready")]
                   [] OTHER ->
                        [rc |-> begun.rc,
                         atts |-> polled, tks |-> spawned, ret |-> p.fut.output.val]

\* Reconnect::poll_ready: the wrapper, the factory's futures and the tasks
\* afterwards, and what the poll returned
Reconnect_poll_ready(rc, atts, tks) ==
    LET begun == IF rc.state = "Idle" THEN Reconnect_connect(rc, atts)
                 ELSE [rc |-> rc, atts |-> atts]
        a == begun.rc.future
    IN  IF begun.rc.state = "Ready"
        THEN [rc |-> rc, atts |-> atts, tks |-> tks, ret |-> Ok("ready")]
        ELSE LET p == MakeSendRequestService_poll(begun.atts[a], a)
                 polled == [begun.atts EXCEPT ![a] = p.fut]
                 spawned == tks \o p.spawned
             IN  CASE ~p.fut.output.some ->
                        [rc |-> begun.rc, atts |-> polled, tks |-> spawned, ret |-> PollPending]
                   [] p.fut.output.some /\ p.fut.output.val.tag = "Ok" ->
                        [rc |-> [begun.rc EXCEPT !.state = "Ready", !.future = 0,
                                                 !.send = p.fut.output.val.val.session],
                         atts |-> polled, tks |-> spawned, ret |-> Ok("ready")]
                   [] OTHER ->
                        [rc |-> [begun.rc EXCEPT !.state = "Idle", !.future = 0],
                         atts |-> polled, tks |-> spawned, ret |-> p.fut.output.val]

\* a call's future resolved: an error of the SendRequest held that says the
\* session is dead takes the wrapper back to Idle
Reconnect_call_output(rc, session, out) ==
    IF out.some /\ IsSessionClosed(out.val) /\ rc.state = "Ready" /\ rc.send = session
    THEN [rc EXCEPT !.state = "Idle", !.send = 0]
    ELSE rc

\* a variant that builds the lazy Connection like the eager one
Connection_lazy_eager(ep) == Reconnect_new(ep.uri, FALSE)

\* Connection::lazy: Self::new(connector, endpoint, true); new_with_modifier_fn
\* makes the wrapper with `Reconnect::new(make_service, endpoint_origin, is_lazy)`
Connection_lazy(ep) == Reconnect_new(ep.uri, TRUE)

\* a variant that hands the override origin to the reconnect wrapper
Connection_connect_to_origin(ep) ==
    Reconnect_new(IF ep.origin.some THEN ep.origin.val ELSE ep.uri, FALSE)

\* Connection::connect, up to `.ready_oneshot()`: new_with_modifier_fn(.., false, ..)
Connection_connect(ep) == Reconnect_new(ep.uri, FALSE)

\* ready_oneshot: what `connect` returns after a poll_ready that returned ret
ready_oneshot(ret) ==
    CASE ret.tag = "Ok" -> Some(Ok("Connection"))
      [] ret.tag = "Err" -> Some(ret)
      [] OTHER -> None

\* whether the driver of session s is still running
SessionAlive(s) == \E i \in DOMAIN tasks : tasks[i].session = s /\ tasks[i].state = "running"

\* a Connection returned by `connect` whose session 1 is up
Established(ep) ==
    LET made == Connection_connect(ep)
        io == [made.atts EXCEPT ![1].io = Some(Ok("io"))]
        p1 == Reconnect_poll_ready(made.rc, io, <<>>)
        hs == [p1.atts EXCEPT ![1].handshake = Some(Ok("session"))]
        p2 == Reconnect_poll_ready(p1.rc, hs, p1.tks)
    IN  /\ reconnect = p2.rc
        /\ attempts = p2.atts
        /\ tasks = p2.tks
        /\ connection = [how |-> "connect", returned |-> ready_oneshot(p2.ret),
                         ready |-> Some(p2.ret)]

(***************************************************************************)
(* The deadline middleware.                                                *)
(***************************************************************************)
\* a variant taking the longer of the two durations
timeout_duration_longer(client_timeout, server_timeout) ==
    CASE ~client_timeout.some /\ ~server_timeout.some -> None
      [] client_timeout.some /\ ~server_timeout.some -> Some(client_timeout.val)
      [] ~client_timeout.some /\ server_timeout.some -> Some(server_timeout.val)
      [] OTHER -> Some(IF DurLeq(client_timeout.val, server_timeout.val)
                       THEN server_timeout.val ELSE client_timeout.val)

\* "Use the shorter of the two durations, if either are set"
timeout_duration(client_timeout, server_timeout) ==
    CASE ~client_timeout.some /\ ~server_timeout.some -> None
      [] client_timeout.some /\ ~server_timeout.some -> Some(client_timeout.val)
      [] ~client_timeout.some /\ server_timeout.some -> Some(server_timeout.val)
      [] OTHER -> Some(DurMin(client_timeout.val, server_timeout.val))

\* a variant that lets a malformed header expire the call at once
client_timeout_zero(parse) == IF parse.tag = "Ok" THEN parse.val ELSE Some(from_secs(<<>>))

\* try_parse_grpc_timeout(..).unwrap_or_else(|e| { trace!(..); None })
client_timeout(parse) == IF parse.tag = "Ok" THEN parse.val ELSE None

\* tokio::time::sleep(dur), created at time t
Sleep(dur, t) == [start |-> t, dur |-> dur]
\* Sleep::poll is ready once the duration has elapsed
Elapsed(timer, t) == DurLeq(timer.dur, from_secs(NatDigits(t - timer.start)))

SleepNo == [tag |-> "No"]
SleepYes(known, t) ==
    [tag |-> "Yes", timer |-> IF known.some THEN Some(Sleep(known.val, t)) ELSE None]

(***************************************************************************)
(* One call: the ResponseFuture of the deadline middleware, the boxed      *)
(* future of the send endpoint inside it, and a record of what they did.   *)
(***************************************************************************)
IdleCall ==
    [ state     |-> "idle",   \* idle, pending, ready, panicked, dropped
      dropped   |-> FALSE,    \* the caller dropped the response future
      variant   |-> "none",   \* GrpcTimeout::call or GrpcTimeout::async_call
      submitted |-> None,     \* the request the caller passed
      request   |-> None,     \* the request the request future has reached
      built     |-> <<>>,     \* the layers the call went through
      steps     |-> <<>>,     \* the request future: steps run before the send
      pc        |-> 1,        \* the step the request future is at
      running   |-> FALSE,    \* the modifier at pc was called, its future is awaited
      mod_ready |-> FALSE,    \* the awaited modifier future can complete
      chan      |-> "none",   \* oneshot: open, full, taken, closed
      chan_val  |-> None,     \* the value buffered in the oneshot
      sleep     |-> [tag |-> "none"],   \* ResponseFuture.sleep
      computed  |-> None,     \* the timeout_duration computed for the call
      session   |-> 0,        \* the session of the cloned SendRequest
      rx_polls  |-> {},       \* what polling the oneshot receiver returned
      send      |-> "no",     \* no, inflight, done, cancelled
      sent      |-> <<>>,     \* requests handed to the HTTP/2 session
      response  |-> None,     \* what the session answered
      inner_out |-> None,     \* the output of ResponseFuture.inner
      output    |-> None,     \* the output of the ResponseFuture
      resolved  |-> 0,        \* times the ResponseFuture returned Ready
      trace     |-> <<>>,     \* the steps in the order they ran
      inputs    |-> <<>>,     \* the request each modifier was called with
      outputs   |-> <<>> ]    \* the request each modifier future yielded

\* `modifier_fn(input.await)`: the clone is called with the request that the
\* previous future yielded
ModifierInvoke(cr) ==
    LET f == cr.steps[cr.pc].f IN
    [cr EXCEPT !.running = TRUE,
               !.mod_ready = ~ModifierPends(f),
               !.steps[cr.pc].f.consumed = TRUE,
               !.trace = Append(@, f.name),
               !.inputs = Append(@, <<f.name, cr.request>>)]

\* `.await` of the modifier's future, once it is ready
ModifierYield(cr) ==
    LET f == cr.steps[cr.pc].f
        out == ModifierOutput(f, cr.request)
    IN  [cr EXCEPT !.request = out,
                   !.outputs = Append(@, <<f.name, out>>),
                   !.running = FALSE,
                   !.mod_ready = FALSE,
                   !.pc = @ + 1]

\* a variant that drops the sender without sending
DeadlineStep_no_send(cr, checks) ==
    LET parse == try_parse_grpc_timeout(cr.request.timeout, checks)
        dur == timeout_duration(client_timeout(parse), cr.steps[cr.pc].server_timeout)
    IN  IF parse.tag = "Panic" THEN [cr EXCEPT !.state = "panicked"]
        ELSE [cr EXCEPT !.computed = Some(dur),
                        !.chan = IF @ = "open" THEN "closed" ELSE @,
                        !.trace = Append(@, "Deadline"),
                        !.pc = @ + 1]

\* a variant that reads the header of the request as the caller submitted it
DeadlineStep_submitted(cr, checks) ==
    LET parse == try_parse_grpc_timeout(cr.submitted.val.timeout, checks)
        dur == timeout_duration(client_timeout(parse), cr.steps[cr.pc].server_timeout)
    IN  IF parse.tag = "Panic" THEN [cr EXCEPT !.state = "panicked"]
        ELSE [cr EXCEPT !.computed = Some(dur),
                        !.chan = IF @ = "open" THEN "full" ELSE @,
                        !.chan_val = IF cr.chan = "open" THEN Some(dur) ELSE @,
                        !.trace = Append(@, "Deadline"),
                        !.pc = @ + 1]

\* the `call` block of GrpcTimeout::async_call once `request.await` is done
DeadlineStep(cr, checks) ==
    LET parse == try_parse_grpc_timeout(cr.request.timeout, checks)
        dur == timeout_duration(client_timeout(parse), cr.steps[cr.pc].server_timeout)
    IN  IF parse.tag = "Panic" THEN [cr EXCEPT !.state = "panicked"]
        ELSE [cr EXCEPT !.computed = Some(dur),
                        \* let _ = tx.send(timeout_duration)
                        !.chan = IF @ = "open" THEN "full" ELSE @,
                        !.chan_val = IF cr.chan = "open" THEN Some(dur) ELSE @,
                        !.trace = Append(@, "Deadline"),
                        !.pc = @ + 1]

\* a variant that sends the request as the caller submitted it
SendStep_submitted(cr) ==
    [cr EXCEPT !.sent = Append(@, cr.submitted.val),
               !.send = "inflight",
               !.trace = Append(@, "Send"),
               !.pc = @ + 1]

\* `send_request.send_request(req.await)` once `req.await` is done
SendStep(cr) ==
    [cr EXCEPT !.sent = Append(@, cr.request),
               !.send = "inflight",
               !.trace = Append(@, "Send"),
               !.pc = @ + 1]

\* one poll of the request future and of the send behind it: runs until a
\* modifier future is pending or the request has been sent
RECURSIVE RunSteps(_, _)
RunSteps(cr, checks) ==
    IF cr.state = "panicked" \/ cr.pc > Len(cr.steps) THEN cr
    ELSE LET kind == cr.steps[cr.pc].kind IN
      CASE kind = "modifier" ->
             LET called == IF cr.running THEN cr ELSE ModifierInvoke(cr)
             IN  IF called.mod_ready THEN RunSteps(ModifierYield(called), checks)
                 ELSE called
        [] kind = "deadline" -> RunSteps(DeadlineStep(cr, checks), checks)
        [] kind = "send" -> RunSteps(SendStep(cr), checks)

\* a variant that sends the request again when the session turns out dead
PollInner_resend(cr, imm, checks) ==
    LET ran == RunSteps(cr, checks)
        sentNow == cr.send = "no" /\ ran.send = "inflight"
    IN  IF sentNow /\ imm.some THEN [ran EXCEPT !.response = imm]
        ELSE IF ran.response.some /\ IsSessionClosed(ran.response.val)
        THEN [ran EXCEPT !.response = None, !.sent = Append(@, cr.request)]
        ELSE ran

\* polls the boxed future of SendRequest::async_call; imm is what the session
\* answers at once when the request is sent in this poll
PollInner(cr, imm, checks) ==
    LET ran == RunSteps(cr, checks)
        sentNow == cr.send = "no" /\ ran.send = "inflight"
    IN  IF sentNow /\ imm.some THEN [ran EXCEPT !.response = imm] ELSE ran

\* a variant whose sleep future completes when there is no timeout
SleepPoll_none_ready(cr, t) ==
    LET known ==
          IF cr.sleep.tag = "No" /\ cr.chan = "full"
          THEN [cr EXCEPT !.sleep = SleepYes(cr.chan_val.val, t),
                          !.chan = "taken", !.chan_val = None,
                          !.rx_polls = @ \cup {"value"}]
          ELSE cr
    IN  CASE known.sleep.tag = "No" /\ known.chan = "closed" ->
               [res |-> "Panic", cr |-> [known EXCEPT !.rx_polls = @ \cup {"closed"}]]
          [] known.sleep.tag = "No" ->
               [res |-> "Pending", cr |-> [known EXCEPT !.rx_polls = @ \cup {"pending"}]]
          [] known.sleep.tag = "Yes" /\ known.sleep.timer.some ->
               [res |-> IF Elapsed(known.sleep.timer.val, t) THEN "Ready" ELSE "Pending",
                cr |-> known]
          [] OTHER -> [res |-> "Ready", cr |-> known]

\* a variant that makes a new timer from the known duration at every poll
SleepPoll_new_timer(cr, t) ==
    LET known ==
          IF cr.sleep.tag = "No" /\ cr.chan = "full"
          THEN [cr EXCEPT !.sleep = SleepYes(cr.chan_val.val, t),
                          !.chan = "taken", !.chan_val = None,
                          !.rx_polls = @ \cup {"value"}]
          ELSE IF cr.sleep.tag = "Yes" /\ cr.sleep.timer.some
          THEN [cr EXCEPT !.sleep = SleepYes(Some(cr.sleep.timer.val.dur), t)]
          ELSE cr
    IN  CASE known.sleep.tag = "No" /\ known.chan = "closed" ->
               [res |-> "Panic", cr |-> [known EXCEPT !.rx_polls = @ \cup {"closed"}]]
          [] known.sleep.tag = "No" ->
               [res |-> "Pending", cr |-> [known EXCEPT !.rx_polls = @ \cup {"pending"}]]
          [] known.sleep.tag = "Yes" /\ known.sleep.timer.some ->
               [res |-> IF Elapsed(known.sleep.timer.val, t) THEN "Ready" ELSE "Pending",
                cr |-> known]
          [] OTHER -> [res |-> "Pending", cr |-> known]

\* SleepKnown::poll at time t
SleepPoll(cr, t) ==
    LET known ==
          IF cr.sleep.tag = "No" /\ cr.chan = "full"
          THEN [cr EXCEPT !.sleep = SleepYes(cr.chan_val.val, t),
                          !.chan = "taken", !.chan_val = None,
                          !.rx_polls = @ \cup {"value"}]
          ELSE cr
    IN  CASE known.sleep.tag = "No" /\ known.chan = "closed" ->
               [res |-> "Panic", cr |-> [known EXCEPT !.rx_polls = @ \cup {"closed"}]]
          [] known.sleep.tag = "No" ->
               [res |-> "Pending", cr |-> [known EXCEPT !.rx_polls = @ \cup {"pending"}]]
          [] known.sleep.tag = "Yes" /\ known.sleep.timer.some ->
               [res |-> IF Elapsed(known.sleep.timer.val, t) THEN "Ready" ELSE "Pending",
                cr |-> known]
          [] OTHER -> [res |-> "Pending", cr |-> known]

\* a variant that polls the sleep future before the inner future
ResponseFuture_poll_sleep_first(cr, imm, t, checks) ==
    LET sp == SleepPoll(cr, t) IN
    CASE sp.res = "Panic" -> [sp.cr EXCEPT !.state = "panicked"]
      [] sp.res = "Ready" -> [sp.cr EXCEPT !.state = "ready",
                                           !.output = Some(TimeoutExpired),
                                           !.resolved = @ + 1]
      [] OTHER ->
           LET inner == PollInner(sp.cr, imm, checks) IN
           IF inner.state = "panicked" THEN inner
           ELSE IF inner.send = "inflight" /\ inner.response.some
           THEN [inner EXCEPT !.state = "ready", !.send = "done",
                              !.inner_out = inner.response,
                              !.output = inner.response,
                              !.resolved = @ + 1]
           ELSE inner

\* a variant in which an elapsed timer wins over a ready inner future
ResponseFuture_poll_timer_wins(cr, imm, t, checks) ==
    LET inner == PollInner(cr, imm, checks) IN
    IF inner.state = "panicked" THEN inner
    ELSE LET sp == SleepPoll(inner, t) IN
         CASE sp.res = "Panic" -> [sp.cr EXCEPT !.state = "panicked"]
           [] sp.res = "Ready" -> [sp.cr EXCEPT !.state = "ready",
                                                !.output = Some(TimeoutExpired),
                                                !.resolved = @ + 1]
           [] inner.send = "inflight" /\ inner.response.some ->
                [sp.cr EXCEPT !.state = "ready", !.send = "done",
                              !.inner_out = inner.response,
                              !.output = inner.response,
                              !.resolved = @ + 1]
           [] OTHER -> sp.cr

\* ResponseFuture::poll at time t
ResponseFuture_poll(cr, imm, t, checks) ==
    LET inner == PollInner(cr, imm, checks) IN
    IF inner.state = "panicked" THEN inner
    ELSE IF inner.send = "inflight" /\ inner.response.some
    THEN [inner EXCEPT !.state = "ready", !.send = "done",
                       !.inner_out = inner.response,
                       !.output = inner.response,
                       !.resolved = @ + 1]
    ELSE LET sp == SleepPoll(inner, t) IN
         CASE sp.res = "Panic" -> [sp.cr EXCEPT !.state = "panicked"]
           [] sp.res = "Ready" -> [sp.cr EXCEPT !.state = "ready",
                                                !.output = Some(TimeoutExpired),
                                                !.resolved = @ + 1]
           [] OTHER -> sp.cr

\* a variant whose inner future lives on, as a spawned task would
ResponseFuture_drop_detached(cr) == [cr EXCEPT !.dropped = TRUE]

\* dropping a ResponseFuture drops its fields: `inner`, the boxed future that
\* owns the request future with the modifier futures and the oneshot sender,
\* and `sleep` with the receiver or the timer
ResponseFuture_drop(cr) ==
    [cr EXCEPT !.dropped = TRUE,
               !.state = "dropped",
               !.running = FALSE,
               !.mod_ready = FALSE,
               !.chan = IF @ \in {"open", "full"} THEN "closed" ELSE @,
               !.chan_val = None,
               !.sleep = [tag |-> "none"],
               !.send = IF @ = "inflight" THEN "cancelled" ELSE @]

\* what the inner service can answer in the poll that sends the request: an
\* HTTP/2 session can only fail at once, another inner service can also succeed
Immediate(variant) ==
    IF variant = "async_call" THEN {None, Some(TransportError)}
    ELSE {None, Some(TransportError), Some(HttpResponse)}

(***************************************************************************)
(* Initial state.                                                          *)
(***************************************************************************)
Init ==
    /\ headers = None
    /\ parsed = None
    /\ overflow_checks \in BOOLEAN
    /\ endpoint \in Endpoints
    /\ \E m \in CustomModifiers : modifier_fn = StackModifiers(endpoint, m)
    /\ now = 0
    /\ calls = [c \in Calls |-> IdleCall]
    /\ builder = Built(endpoint, modifier_fn)
    /\ Established(endpoint)
    /\ NoDispatcher

(***************************************************************************)
(* Operations.                                                             *)
(***************************************************************************)
\* a variant with one oneshot channel kept in the deadline middleware: a new
\* call replaces the sender that the calls in flight wait for
Connection_call_one_channel(c, req) ==
    /\ calls[c].state = "idle"
    /\ connection.returned = Some(Ok("Connection"))
    /\ reconnect.state = "Ready"
    /\ LET stack == Stack(endpoint) IN
       /\ calls' = [[d \in Calls |->
                      IF calls[d].chan = "open" THEN [calls[d] EXCEPT !.chan = "closed"]
                      ELSE calls[d]] EXCEPT ![c] =
             [IdleCall EXCEPT !.state = "pending",
                              !.variant = "async_call",
                              !.submitted = Some(req),
                              !.request = req,
                              !.built = stack,
                              !.steps = StepsOf(stack, endpoint, modifier_fn),
                              \* let mut send_request = self.inner.clone();
                              !.session = reconnect.send,
                              !.chan = "open",
                              !.sleep = SleepNo]]
       /\ modifier_fn' = [l \in ModifierLayers |-> ModifierFn_async_call(modifier_fn[l]).stored]

\* a variant that starts the timer of the endpoint's timeout in the call
Connection_call_timer_at_call(c, req) ==
    /\ calls[c].state = "idle"
    /\ connection.returned = Some(Ok("Connection"))
    /\ reconnect.state = "Ready"
    /\ LET stack == Stack(endpoint) IN
       /\ calls' = [calls EXCEPT ![c] =
             [IdleCall EXCEPT !.state = "pending",
                              !.variant = "async_call",
                              !.submitted = Some(req),
                              !.request = req,
                              !.built = stack,
                              !.steps = StepsOf(stack, endpoint, modifier_fn),
                              !.session = reconnect.send,
                              !.chan = "open",
                              !.sleep = SleepYes(endpoint.timeout, now)]]
       /\ modifier_fn' = [l \in ModifierLayers |-> ModifierFn_async_call(modifier_fn[l]).stored]

\* Connection::call: the request goes down the stack; every layer hands a
\* request future to the next one through async_call
Connection_call(c, req) ==
    /\ calls[c].state = "idle"
    /\ connection.returned = Some(Ok("Connection"))
    /\ reconnect.state = "Ready"
    /\ LET stack == Stack(endpoint) IN
       /\ calls' = [calls EXCEPT ![c] =
             [IdleCall EXCEPT !.state = "pending",
                              !.variant = "async_call",
                              !.submitted = Some(req),
                              !.request = req,
                              !.built = stack,
                              !.steps = StepsOf(stack, endpoint, modifier_fn),
                              \* let mut send_request = self.inner.clone();
                              !.session = reconnect.send,
                              !.chan = "open",
                              !.sleep = SleepNo]]
       /\ modifier_fn' = [l \in ModifierLayers |-> ModifierFn_async_call(modifier_fn[l]).stored]

\* a call made on the Connection itself
ConnectionCall(c, req) ==
    /\ Connection_call(c, req)
    /\ UNCHANGED <<headers, parsed, overflow_checks, endpoint, now, builder, dispatcher, reconnect, transport>>

\* GrpcTimeout::call over the send endpoint: the deadline is known at once
GrpcTimeoutCall(c, req) ==
    /\ calls[c].state = "idle"
    /\ LET parse == try_parse_grpc_timeout(req.timeout, overflow_checks)
           dur == timeout_duration(client_timeout(parse), endpoint.timeout)
       IN  calls' = [calls EXCEPT ![c] =
             IF parse.tag = "Panic"
             THEN [IdleCall EXCEPT !.state = "panicked", !.variant = "call",
                                   !.submitted = Some(req)]
             ELSE [IdleCall EXCEPT !.state = "pending",
                                   !.variant = "call",
                                   !.submitted = Some(req),
                                   !.request = req,
                                   !.built = <<"GrpcTimeout", "SendRequest">>,
                                   !.steps = <<SendRequest_async_call>>,
                                   !.session = reconnect.send,
                                   !.computed = Some(dur),
                                   !.trace = <<"Deadline">>,
                                   !.sleep = SleepYes(dur, now)]]
    /\ UNCHANGED <<headers, parsed, overflow_checks, endpoint, modifier_fn, now, builder, dispatcher, reconnect, transport>>

\* the executor polls the call's ResponseFuture
Poll(c) ==
    /\ calls[c].state = "pending"
    /\ \E imm \in Immediate(calls[c].variant) :
         calls' = [calls EXCEPT ![c] = ResponseFuture_poll(@, imm, now, overflow_checks)]
    /\ reconnect' = Reconnect_call_output(reconnect, calls[c].session, calls'[c].inner_out)
    /\ UNCHANGED <<headers, parsed, overflow_checks, endpoint, modifier_fn, now, builder, dispatcher, transport>>

\* the future of the user-supplied modifier becomes ready
ModifierComplete(c) ==
    /\ calls[c].state = "pending"
    /\ calls[c].running
    /\ ~calls[c].mod_ready
    /\ calls' = [calls EXCEPT ![c].mod_ready = TRUE]
    /\ UNCHANGED <<headers, parsed, overflow_checks, endpoint, modifier_fn, now, builder, dispatcher, reconnect, transport>>

\* the HTTP/2 session answers the request of a call, or fails it
Respond(c, r) ==
    /\ calls[c].state = "pending"
    /\ calls[c].send = "inflight"
    /\ ~calls[c].response.some
    /\ IsSessionClosed(r) <=> ~SessionAlive(calls[c].session)
    /\ calls' = [calls EXCEPT ![c].response = Some(r)]
    /\ UNCHANGED <<headers, parsed, overflow_checks, endpoint, modifier_fn, now, builder, dispatcher, reconnect, transport>>

\* a second passes
Tick ==
    /\ now < MaxClock
    /\ now' = now + 1
    /\ UNCHANGED <<headers, parsed, overflow_checks, endpoint, modifier_fn, calls, builder, dispatcher, reconnect, transport>>

Next ==
    \/ \E c \in SoloCalls, req \in Requests : ConnectionCall(c, req)
    \/ \E c \in SoloCalls, req \in Requests : GrpcTimeoutCall(c, req)
    \/ \E c \in SoloCalls : Poll(c)
    \/ \E c \in SoloCalls : ModifierComplete(c)
    \/ \E c \in SoloCalls, r \in {HttpResponse, TransportError} : Respond(c, r)
    \/ Tick

\* one call, every endpoint, modifier and request
Spec == Init /\ [][Next]_vars

(***************************************************************************)
(* Several calls on one Connection, one after the other or at once.        *)
(***************************************************************************)
ConcInit ==
    /\ Init
    /\ overflow_checks
    /\ endpoint.timeout = Some(from_secs(<<2>>))
    /\ ~endpoint.concurrency_limit
    /\ ~endpoint.rate_limit

ConcNext ==
    \/ \E c \in Calls, req \in ConcRequests : ConnectionCall(c, req)
    \/ \E c \in Calls, req \in ConcRequests : GrpcTimeoutCall(c, req)
    \/ \E c \in Calls : Poll(c)
    \/ \E c \in Calls : ModifierComplete(c)
    \/ \E c \in Calls, r \in {HttpResponse, TransportError} : Respond(c, r)
    \/ Tick

SpecConc == ConcInit /\ [][ConcNext]_vars

(***************************************************************************)
(* The parser on its own: the header is drawn from HeaderValues.           *)
(***************************************************************************)
ParseInit ==
    /\ headers \in {None} \cup {Some(v) : v \in HeaderValues}
    /\ parsed = None
    /\ overflow_checks \in BOOLEAN
    /\ endpoint = CHOOSE ep \in Endpoints : ep.timeout = None /\ ~ep.concurrency_limit /\ ~ep.rate_limit
    /\ modifier_fn = StackModifiers(endpoint, [kind |-> "identity", pends |-> FALSE])
    /\ now = 0
    /\ calls = [c \in Calls |-> IdleCall]
    /\ builder = Built(endpoint, modifier_fn)
    /\ Established(endpoint)
    /\ NoDispatcher

Parse ==
    /\ ~parsed.some
    /\ parsed' = Some(try_parse_grpc_timeout(headers, overflow_checks))
    /\ UNCHANGED <<headers, overflow_checks, endpoint, modifier_fn, now, calls, builder, dispatcher, reconnect, transport>>

ParseNext == Parse

SpecParse == ParseInit /\ [][ParseNext]_vars

(***************************************************************************)
(* Properties of the deadline middleware.                                  *)
(***************************************************************************)
Pending(c) == calls[c].state = "pending"
Ready(c) == calls[c].state = "ready"

\* what the grpc-timeout headers of the requests denote, in whole seconds;
\* no entry for a header that is missing or malformed
HeaderSeconds(hdr) ==
    CASE hdr = Some(h0S) -> Some(0)
      [] hdr = Some(h1S) -> Some(1)
      [] hdr = Some(h2S) -> Some(2)
      [] hdr = Some(h1M) -> Some(60)
      [] OTHER -> None

\* a duration of whole seconds, as a number
DurationSeconds(d) == DigitsNat(d.secs)

\* d is the intersection of the client's duration c and the ceiling s
IsIntersection(d, c, s) ==
    CASE c.some /\ s.some ->
           /\ d.some
           /\ d.val.nanos = 0
           /\ DurationSeconds(d.val) <= c.val
           /\ DurationSeconds(d.val) <= DurationSeconds(s.val)
           /\ DurationSeconds(d.val) \in {c.val, DurationSeconds(s.val)}
      [] c.some /\ ~s.some -> d.some /\ d.val.nanos = 0 /\ DurationSeconds(d.val) = c.val
      [] ~c.some /\ s.some -> d = s
      [] OTHER -> d = None

\* the deadline the sleep future of a call works with, once it knows it
SleepDeadline(cr) ==
    IF cr.sleep.timer.some THEN Some(cr.sleep.timer.val.dur) ELSE None

\* C1: for the synchronous call and for async_call, the applied deadline is
\* min(c, s) when the request's grpc-timeout header c and the ceiling s are
\* both present, the one that is present when only one is, and absent when
\* neither is.
C1_DeadlineIsIntersection ==
    \A c \in Calls :
        LET cr == calls[c] IN
        /\ cr.computed.some =>
              IsIntersection(cr.computed.val, HeaderSeconds(cr.request.timeout),
                             endpoint.timeout)
        /\ cr.sleep.tag = "Yes" =>
              /\ cr.computed.some
              /\ SleepDeadline(cr) = cr.computed.val

\* an asynchronous call whose sleep future works with the ceiling, shorter
\* than the header
C1_Witness ==
    /\ calls[1].variant = "async_call"
    /\ calls[1].request.timeout = Some(h2S)
    /\ endpoint.timeout = Some(from_secs(<<1>>))
    /\ calls[1].sleep.tag = "Yes"
    /\ SleepDeadline(calls[1]) = Some(from_secs(<<1>>))

\* C2: the response future resolves once; to TimeoutExpired if the timer
\* fires while the inner future is pending, to the inner future's result
\* unchanged if that completes first, and never to TimeoutExpired once the
\* inner future has completed.
C2_TwoOutcomes ==
    \A c \in Calls :
        LET cr == calls[c] IN
        /\ cr.resolved = (IF cr.state = "ready" THEN 1 ELSE 0)
        /\ cr.state # "ready" => ~cr.output.some
        /\ cr.state = "ready" =>
              \/ /\ cr.output = Some(TimeoutExpired)
                 /\ ~cr.response.some
                 /\ ~cr.inner_out.some
                 /\ cr.sleep.tag = "Yes"
                 /\ cr.sleep.timer.some
                 /\ Elapsed(cr.sleep.timer.val, now)
              \/ /\ cr.response.some
                 /\ cr.output = cr.response
                 /\ cr.inner_out = cr.response
                 /\ cr.output.val \in {HttpResponse, TransportError}

\* the timer fired while the request was in flight
C2_Witness ==
    /\ Ready(1)
    /\ calls[1].output = Some(TimeoutExpired)
    /\ calls[1].send = "inflight"

\* C3: with no parseable grpc-timeout header and no ceiling the sleep future
\* never completes: the response future never resolves to TimeoutExpired and
\* resolves only when the inner future does, whether the deadline is known
\* at call time or None is received over the one-shot channel.
C3_NoDeadlineNeverExpires ==
    \A c \in Calls :
        LET cr == calls[c] IN
        (/\ cr.computed.some
         /\ ~HeaderSeconds(cr.request.timeout).some
         /\ ~endpoint.timeout.some)
        => /\ cr.output # Some(TimeoutExpired)
           /\ cr.sleep.tag = "Yes" => ~cr.sleep.timer.some
           /\ cr.state = "ready" => cr.response.some /\ cr.output = cr.response

\* None came over the one-shot channel and the call is still pending when
\* the clock stops
C3_Witness ==
    /\ Pending(1)
    /\ calls[1].variant = "async_call"
    /\ calls[1].chan = "taken"
    /\ calls[1].sleep = [tag |-> "Yes", timer |-> None]
    /\ now = MaxClock

\* the headers of the requests that do not parse
Unparseable == {Some(hBad), Some(hLong)}

\* the call reached the inner service with its request
Forwarded(cr) ==
    \/ cr.sent = <<cr.request>>
    \/ /\ cr.state = "pending"
       /\ cr.pc <= Len(cr.steps)
       /\ cr.steps[cr.pc].kind = "send"

\* C4: a request whose grpc-timeout header does not parse is not rejected:
\* the call is forwarded to the inner service and the header counts as
\* absent, so the applied deadline is the ceiling, or none without one.
C4_UnparseableIsAbsent ==
    \A c \in Calls :
        LET cr == calls[c] IN
        (cr.state # "idle" /\ cr.request.timeout \in Unparseable /\ ~cr.running
         /\ (cr.pc > Len(cr.steps) \/ cr.steps[cr.pc].kind # "modifier"))
        => /\ cr.state # "panicked"
           /\ cr.computed = Some(endpoint.timeout)
           /\ Forwarded(cr)
           /\ cr.output.some /\ cr.output # cr.response =>
                 /\ cr.output = Some(TimeoutExpired)
                 /\ endpoint.timeout.some

\* a request with a malformed header was sent under the ceiling
C4_Witness ==
    /\ calls[1].variant = "async_call"
    /\ calls[1].request.timeout = Some(hBad)
    /\ endpoint.timeout = Some(from_secs(<<2>>))
    /\ calls[1].computed = Some(endpoint.timeout)
    /\ calls[1].sent = <<calls[1].request>>

(***************************************************************************)
(* Properties of try_parse_grpc_timeout.                                   *)
(***************************************************************************)
\* <digits><unit>: one to eight decimal digits and a unit
IsTimeout(val) ==
    /\ Len(val) >= 2
    /\ Len(val) <= 9
    /\ \A i \in 1..(Len(val) - 1) : val[i] \in DigitChars
    /\ val[Len(val)] \in UnitChars

\* the number the digits in front of the unit denote
TimeoutNumber(val) == Norm([i \in 1..(Len(val) - 1) |-> DigitVal(val[i])])

Zeros(k) == [i \in 1..k |-> 0]

\* N units in nanoseconds
UnitNanos(n, unit) ==
    CASE unit = "H" -> Norm(BigMul(n, 36) \o Zeros(11))
      [] unit = "M" -> Norm(BigMul(n, 6) \o Zeros(10))
      [] unit = "S" -> Norm(n \o Zeros(9))
      [] unit = "m" -> Norm(n \o Zeros(6))
      [] unit = "u" -> Norm(n \o Zeros(3))
      [] unit = "n" -> n

\* a duration in nanoseconds
DurationNanos(d) ==
    LET ns == NatDigits(d.nanos)
    IN  Norm(d.secs \o Zeros(9 - Len(ns)) \o ns)

\* C5: a header of 1 to 8 decimal digits N and a unit u of H, M, S, m, u, n
\* parses to Ok(Some(d)) with d being N hours, minutes, seconds,
\* milliseconds, microseconds or nanoseconds; a missing header parses to
\* Ok(None).
C5_ParsesTimeouts ==
    parsed.some =>
        /\ ~headers.some => parsed.val = Ok(None)
        /\ (headers.some /\ IsTimeout(headers.val)) =>
              /\ parsed.val.tag = "Ok"
              /\ parsed.val.val.some
              /\ parsed.val.val.val.nanos < 1000000000
              /\ DurationNanos(parsed.val.val.val) =
                    UnitNanos(TimeoutNumber(headers.val), Last(headers.val))

\* the largest number of hours was parsed
C5_Witness ==
    /\ headers = Some(<<"9", "9", "9", "9", "9", "9", "9", "9", "H">>)
    /\ parsed.some
    /\ parsed.val.tag = "Ok"
    /\ DurationNanos(parsed.val.val.val) =
          <<3,5,9,9,9,9,9,9,6,4>> \o Zeros(11)

\* C6: every present header value that is not <digits><unit> parses to an
\* error carrying the header value, never to a duration.
C6_RejectsDeviations ==
    (parsed.some /\ headers.some /\ ~IsTimeout(headers.val)) =>
        /\ parsed.val.tag = "Err"
        /\ parsed.val.val = headers.val

\* C7: try_parse_grpc_timeout never panics, and with at most 8 digits the
\* products N * 3600 and N * 60 never exceed a u64.
C7_NeverPanics ==
    parsed.some =>
        /\ parsed.val.tag # "Panic"
        /\ (parsed.val.tag = "Ok" /\ parsed.val.val.some /\ Last(headers.val) \in {"H", "M"}) =>
              LET n == U64Parse(Front(headers.val)).val
                  k == IF Last(headers.val) = "H" THEN 3600 ELSE 60
              IN  /\ BigLeq(BigMul(n, k), U64_MAX)
                  /\ parsed.val.val.val.secs = BigMul(n, k)

\* the empty value and the longest run of digits were parsed without a panic
C7_Witness ==
    /\ parsed.some
    /\ parsed.val.tag = "Err"
    /\ headers.some
    /\ Len(headers.val) = MaxDigits + 1
    /\ Last(headers.val) = "H"
    /\ headers.val[1] = "9"

(***************************************************************************)
(* Properties of the stack: the modifier layers and the send endpoint.     *)
(***************************************************************************)
IsPrefix(a, b) == Len(a) <= Len(b) /\ a = SubSeq(b, 1, Len(a))

LimitLayers == {"ConcurrencyLimit", "RateLimit"}

Position(seq, x) == CHOOSE i \in 1..Len(seq) : seq[i] = x
Occurs(seq, x) == \E i \in 1..Len(seq) : seq[i] = x

\* how many entries of a log of <<layer, request>> pairs are of a layer
Count(log, layer) == Cardinality({i \in 1..Len(log) : log[i][1] = layer})

\* every modifier was called with what the future before it yielded
ChainedInputs(cr) ==
    \A k \in 1..Len(cr.inputs) :
        /\ k <= Len(cr.outputs) + 1
        /\ cr.inputs[k][2] = IF k = 1 THEN cr.submitted.val ELSE cr.outputs[k - 1][2]
        /\ k <= Len(cr.outputs) => cr.outputs[k][1] = cr.inputs[k][1]

\* the request the composition of the modifier futures yielded
FinalRequest(cr) ==
    IF cr.outputs = <<>> THEN cr.submitted.val ELSE cr.outputs[Len(cr.outputs)][2]

\* C8: in a Connection's stack the request goes through AddOrigin, then
\* UserAgent, then the user-supplied modifier, each working on the output of
\* the one before; then the deadline is determined, and only then the
\* request reaches the reconnect wrapper and the send endpoint.  The limits,
\* when configured, are the outermost layers.
C8_StackOrder ==
    \A c \in Calls :
        LET cr == calls[c] IN
        cr.variant = "async_call" =>
          /\ IsPrefix(cr.trace, <<"AddOrigin", "UserAgent", "Custom", "Deadline", "Send">>)
          /\ ChainedInputs(cr)
          /\ cr.computed.some =>
                /\ Len(cr.outputs) = 3
                /\ IsIntersection(cr.computed.val,
                                  HeaderSeconds(cr.outputs[3][2].timeout), endpoint.timeout)
          /\ cr.sent # <<>> => cr.computed.some /\ cr.sent = <<cr.outputs[3][2]>>
          /\ \A i, j \in 1..Len(cr.built) :
                (cr.built[i] \in LimitLayers /\ cr.built[j] \notin LimitLayers) => i < j
          /\ endpoint.concurrency_limit <=> Occurs(cr.built, "ConcurrencyLimit")
          /\ endpoint.rate_limit <=> Occurs(cr.built, "RateLimit")
          /\ (endpoint.concurrency_limit /\ endpoint.rate_limit) =>
                Position(cr.built, "ConcurrencyLimit") < Position(cr.built, "RateLimit")
          /\ Position(cr.built, "Custom") < Position(cr.built, "GrpcTimeout")
          /\ Position(cr.built, "GrpcTimeout") < Position(cr.built, "Reconnect")
          /\ Position(cr.built, "Reconnect") < Position(cr.built, "SendRequest")

\* a call went through both limits and all steps, the user-supplied modifier
\* having set the header the deadline was taken from
C8_Witness ==
    /\ endpoint.concurrency_limit
    /\ endpoint.rate_limit
    /\ calls[1].trace = <<"AddOrigin", "UserAgent", "Custom", "Deadline", "Send">>
    /\ calls[1].submitted.val.timeout = None
    /\ calls[1].outputs[3][2].timeout = Some(h1S)
    /\ calls[1].outputs[3][2].origin = endpoint.uri

\* the modifier steps of a call, in order
ModifierSteps(cr) == {k \in 1..Len(cr.steps) : cr.steps[k].kind = "modifier"}

\* within one call every modifier is called once, with the request of the
\* previous future, and its future is awaited once
OncePerCall(cr) ==
    /\ ChainedInputs(cr)
    /\ \A k \in ModifierSteps(cr) :
          LET f == cr.steps[k].f IN
          /\ Count(cr.inputs, f.name) = (IF f.consumed THEN 1 ELSE 0)
          /\ Count(cr.outputs, f.name) = (IF k < cr.pc THEN 1 ELSE 0)
          /\ k < cr.pc => f.consumed
          /\ k > cr.pc => ~f.consumed
          /\ [f EXCEPT !.consumed = FALSE] = modifier_fn[f.name]

\* C9: within one call each modifier layer's transformation is invoked
\* exactly once, on the request the previous layer's future produced, that
\* future being awaited once; over any sequence or overlap of calls the
\* modifier stored in a layer stays as it is, each call running a clone.
C9_ModifierOncePerCall ==
    /\ [](\A c \in Calls : calls[c].variant = "async_call" => OncePerCall(calls[c]))
    /\ [][modifier_fn' = modifier_fn]_vars
    /\ [](\A l \in ModifierLayers : ~modifier_fn[l].consumed)

\* two calls at once, both through all their modifiers
C9_Witness ==
    /\ \A c \in Calls :
          /\ calls[c].variant = "async_call"
          /\ Len(calls[c].outputs) = 3
          /\ Pending(c)
    /\ modifier_fn["Custom"].captured.pends

\* C10: the send endpoint sends a call's request only after the final
\* request future has resolved, and sends the request that future yielded;
\* while a modifier future is pending nothing is sent, and a call sends at
\* most once.
C10_SendAfterRequestFuture ==
    \A c \in Calls :
        LET cr == calls[c] IN
        /\ Len(cr.sent) <= 1
        /\ cr.send = "no" <=> cr.sent = <<>>
        /\ cr.running => cr.sent = <<>>
        /\ cr.sent # <<>> =>
              /\ \A k \in ModifierSteps(cr) : k < cr.pc /\ cr.steps[k].f.consumed
              /\ Len(cr.outputs) = Cardinality(ModifierSteps(cr))
              /\ cr.variant = "async_call" => cr.computed.some
              /\ cr.sent[1] = FinalRequest(cr)

\* the request sent is the one the modifiers made, not the one submitted
C10_Witness ==
    /\ calls[1].send = "inflight"
    /\ calls[1].submitted.val.timeout = None
    /\ calls[1].sent = <<[calls[1].submitted.val EXCEPT
                            !.timeout = Some(h1S),
                            !.origin = endpoint.uri,
                            !.user_agent = Some(<<endpoint.user_agent>>)]>>

(***************************************************************************)
(* The modifier layers of a stack under construction: layer() may be       *)
(* called on each LayerFnOnce in any order, and more than once.            *)
(***************************************************************************)
LayerInit ==
    /\ headers = None
    /\ parsed = None
    /\ overflow_checks = TRUE
    /\ endpoint \in Endpoints
    /\ modifier_fn = [l \in ModifierLayers |-> None]
    /\ now = 0
    /\ calls = [c \in Calls |-> IdleCall]
    /\ \E m \in CustomModifiers : builder = NewBuilder(StackModifiers(endpoint, m))
    /\ LET made == Connection_lazy(endpoint) IN
         /\ reconnect = made.rc
         /\ attempts = made.atts
         /\ tasks = <<>>
         /\ connection = [how |-> "lazy", returned |-> None, ready |-> None]
    /\ NoDispatcher

\* layer() on the LayerFnOnce of modifier layer l, around the service built so
\* far; a panic unwinds and leaves that service as it was
Layer(l) ==
    /\ Len(builder.uses[l]) < MaxLayerCalls
    /\ LET r == LayerFnOnce_layer(builder.layers[l], builder.service) IN
       /\ builder' = [layers |-> [builder.layers EXCEPT ![l] = r.self],
                      service |-> IF r.out.tag = "Ok" THEN r.out.val.service
                                  ELSE builder.service,
                      uses |-> [builder.uses EXCEPT ![l] = Append(@, r.out)]]
       /\ modifier_fn' = IF r.out.tag = "Ok"
                         THEN [modifier_fn EXCEPT ![l] = r.out.val.modifier_fn]
                         ELSE modifier_fn
    /\ UNCHANGED <<headers, parsed, overflow_checks, endpoint, now, calls, dispatcher, reconnect, transport>>

LayerNext == \E l \in ModifierLayers : Layer(l)

SpecLayer == LayerInit /\ [][LayerNext]_vars

\* how often the constructor of layer l has run
Constructed(l) == Cardinality({i \in DOMAIN builder.uses[l] : builder.uses[l][i].tag = "Ok"})

Encodings == {"gzip", "zstd"}

\* http::Uri: scheme, authority, and the path and query as one string whose
\* query starts at "?"; the string is empty when the URI was written without
\* a path
Uri(scheme, authority, path_and_query) ==
    [scheme |-> scheme, authority |-> authority, path_and_query |-> path_and_query]

\* Uri::default(), "/"
Uri_default == Uri(None, None, <<"/">>)

\* PathAndQuery::as_str, the string `pnq != "/"` compares: "/" when empty
PathAndQuery_as_str(pnq) == IF pnq = <<>> THEN <<"/">> ELSE pnq

\* where the query starts
QueryStart(pnq) ==
    IF \E i \in DOMAIN pnq : pnq[i] = "?"
    THEN CHOOSE i \in DOMAIN pnq : pnq[i] = "?" /\ \A j \in 1..(i - 1) : pnq[j] # "?"
    ELSE Len(pnq) + 1

\* PathAndQuery::path: what precedes the query, "/" when that is empty
PathAndQuery_path(pnq) ==
    LET path == SubSeq(pnq, 1, QueryStart(pnq) - 1)
    IN  IF path = <<>> THEN <<"/">> ELSE path

\* Uri::into_parts: the path and query is a part when the URI has a path,
\* which every URI with a scheme has
Uri_into_parts(uri) ==
    [scheme |-> uri.scheme,
     authority |-> uri.authority,
     path_and_query |-> IF uri.path_and_query # <<>> \/ uri.scheme.some
                        THEN Some(uri.path_and_query) ELSE None]

\* Uri::from_parts: a scheme needs an authority and a path, and an authority
\* with a path needs a scheme
Uri_from_parts(parts) ==
    CASE parts.scheme.some /\ ~parts.authority.some -> Err("AuthorityMissing")
      [] parts.scheme.some /\ ~parts.path_and_query.some -> Err("PathAndQueryMissing")
      [] ~parts.scheme.some /\ parts.authority.some /\ parts.path_and_query.some ->
            Err("SchemeMissing")
      [] OTHER -> Ok(Uri(parts.scheme, parts.authority,
                         IF parts.path_and_query.some THEN parts.path_and_query.val
                         ELSE <<>>))

\* "http://example.com" followed by a path and query
HttpUri(path_and_query) == Uri(Some("http"), Some("example.com"), path_and_query)

\* the origins a client is configured with: "/", "example.com:443",
\* "http://example.com", "http://example.com/", "http://example.com/api",
\* "http://example.com/?q" and "http://example.com/api?q"
Origins ==
    { Uri_default,
      Uri(None, Some("example.com:443"), <<>>),
      HttpUri(<<>>),
      HttpUri(<<"/">>),
      HttpUri(<<"/", "api">>),
      HttpUri(<<"/", "?", "q">>),
      HttpUri(<<"/", "api", "?", "q">>) }

\* the PathAndQuery of a method: "/svc/Method" and "/svc/Method?x"
MethodPaths == {<<"/", "svc", "/", "Method">>, <<"/", "svc", "/", "Method", "?", "x">>}

\* GrpcConfig
GrpcConfig(origin, accept, send, max_decoding, max_encoding) ==
    [origin |-> origin,
     accept_compression_encodings |-> accept,
     send_compression_encodings |-> send,
     max_decoding_message_size |-> max_decoding,
     max_encoding_message_size |-> max_encoding]

\* GrpcConfig::default()
GrpcConfig_default == GrpcConfig(Uri_default, {}, None, None, None)

\* a message size limit a client is configured with
SizeLimits == {4}

\* what GrpcBuilder::build can make
BuiltConfigs ==
    { GrpcConfig(o, a, s, d, e) :
        o \in Origins, a \in SUBSET Encodings,
        s \in {None} \cup {Some(x) : x \in Encodings},
        d \in {None} \cup {Some(n) : n \in SizeLimits},
        e \in {None} \cup {Some(n) : n \in SizeLimits} }

\* the getters of Grpc: the fields of the shared configuration, or their
\* defaults in a build without the feature
Grpc_config(k) ==
    IF grpc_config THEN configs[clients[k].val.config] ELSE GrpcConfig_default

\* metadata of the caller's Request: grpc-timeout, te, content-type,
\* grpc-encoding
Metadata(timeout, te, content_type, grpc_encoding) ==
    [timeout |-> timeout, te |-> te, content_type |-> content_type,
     grpc_encoding |-> grpc_encoding]

\* tonic::Request
CallerRequests ==
    { [metadata |-> md, message |-> "request"] :
        md \in { Metadata(None, None, None, None),
                 Metadata(Some(h1S), None, None, None),
                 Metadata(None, Some("deflate"), Some("text/plain"), Some("br")) } }

GRPC_CONTENT_TYPE == "application/grpc"

\* Request::into_http with SanitizeHeaders::Yes: the reserved headers te,
\* content-type and user-agent of the caller are not copied
into_http(request, uri, method, version) ==
    [method |-> method,
     version |-> version,
     origin |-> [scheme |-> uri.scheme, authority |-> uri.authority],
     path_and_query |-> uri.path_and_query,
     timeout |-> request.metadata.timeout,
     user_agent |-> None,
     te |-> None,
     content_type |-> None,
     grpc_encoding |-> request.metadata.grpc_encoding,
     grpc_accept_encoding |-> None,
     body |-> request.message]

\* EnabledCompressionEncodings::into_accept_encoding_header_value
into_accept_encoding_header_value(accept) == IF accept = {} THEN None ELSE Some(accept)

\* prepare_request: the URI, from the origin and the method's path
request_uri(origin, path) ==
    LET parts == Uri_into_parts(origin)
        pnq == parts.path_and_query
        path_and_query ==
            IF pnq.some /\ PathAndQuery_as_str(pnq.val) # <<"/">>
            THEN PathAndQuery_path(pnq.val) \o path
            ELSE path
    IN  Uri_from_parts([parts EXCEPT !.path_and_query = Some(path_and_query)])

\* a variant that leaves the te header as it came
mandatory_headers_no_te(http) ==
    [http EXCEPT !.content_type = Some(GRPC_CONTENT_TYPE)]

\* prepare_request: "Add the gRPC related HTTP headers", "Set the content type"
mandatory_headers(http) ==
    [http EXCEPT !.te = Some("trailers"),
                 !.content_type = Some(GRPC_CONTENT_TYPE)]

\* a variant that announces the accepted encodings only when it compresses
compression_headers_send_only(config, http) ==
    IF config.send_compression_encodings.some
    THEN [http EXCEPT !.grpc_encoding = config.send_compression_encodings,
                      !.grpc_accept_encoding =
                          into_accept_encoding_header_value(config.accept_compression_encodings)]
    ELSE http

\* prepare_request: the grpc-encoding and grpc-accept-encoding headers
compression_headers(config, http) ==
    LET encoded == IF config.send_compression_encodings.some
                   THEN [http EXCEPT !.grpc_encoding = config.send_compression_encodings]
                   ELSE http
        header_value ==
            into_accept_encoding_header_value(config.accept_compression_encodings)
    IN  IF header_value.some
        THEN [encoded EXCEPT !.grpc_accept_encoding = header_value]
        ELSE encoded

\* prepare_request, for the configuration the getters return
prepare_request(config, request, path) ==
    LET uri == request_uri(config.origin, path)
    IN  IF uri.tag = "Err"
        THEN [tag |-> "Panic", val |-> "path_and_query only is valid Uri"]
        ELSE Ok(compression_headers(config,
                    mandatory_headers(into_http(request, uri.val, "POST", "HTTP/2"))))

Shapes == {"unary", "client_streaming", "server_streaming", "streaming"}

\* whether a call borrows client k
Borrowed(k) == \E c \in Calls : rpcs[c].state = "awaiting" /\ rpcs[c].client = k

\* unary, client_streaming, server_streaming and streaming, up to the await of
\* the inner service's future: all four go through streaming, which sets up
\* the encoder, prepares the request and calls the inner service
GrpcCall(c, k, shape, request, path) ==
    /\ rpcs[c].state = "idle"
    /\ clients[k].some
    /\ ~Borrowed(k)
    /\ LET config == Grpc_config(k)
           http == prepare_request(config, request, path)
           started == [IdleRpc EXCEPT !.shape = shape, !.client = k,
                                      !.config = Some(config),
                                      !.request = Some(request), !.path = path]
       IN  IF http.tag = "Panic"
           THEN /\ rpcs' = [rpcs EXCEPT ![c] =
                      [started EXCEPT !.state = "panicked", !.result = Some(http)]]
                /\ UNCHANGED <<calls, modifier_fn>>
           ELSE /\ rpcs' = [rpcs EXCEPT ![c] =
                      [started EXCEPT
                          !.state = "awaiting",
                          !.http = Some(http.val),
                          !.encode = Some([encoding |-> config.send_compression_encodings,
                                           max_message_size |-> config.max_encoding_message_size])]]
                /\ Connection_call(c, http.val)
    /\ UNCHANGED <<headers, parsed, overflow_checks, endpoint, now, builder,
                   grpc_config, configs, clients, reconnect, transport>>

\* a Connection with the default modifier and no limits, as the inner service
PlainEndpoint(timeout) ==
    [uri |-> "endpoint-uri", origin |-> None, user_agent |-> "tonic",
     timeout |-> timeout, concurrency_limit |-> FALSE, rate_limit |-> FALSE]

\* a first client, from GrpcBuilder::build or, without the feature, Grpc::new
GrpcInit(built) ==
    /\ headers = None
    /\ parsed = None
    /\ overflow_checks = TRUE
    /\ modifier_fn = StackModifiers(endpoint, [kind |-> "identity", pends |-> FALSE])
    /\ now = 0
    /\ calls = [c \in Calls |-> IdleCall]
    /\ builder = Built(endpoint, modifier_fn)
    /\ Established(endpoint)
    /\ grpc_config \in BOOLEAN
    /\ \E config \in built : configs = IF grpc_config THEN <<config>> ELSE <<>>
    /\ clients = [k \in Clients |-> IF k = 1 THEN Some([config |-> 1]) ELSE None]
    /\ rpcs = [c \in Calls |-> IdleRpc]

(***************************************************************************)
(* The start of one call, for every configuration of the client.           *)
(***************************************************************************)
PrepareInit ==
    /\ endpoint = PlainEndpoint(None)
    /\ GrpcInit(BuiltConfigs)

PrepareNext ==
    \E c \in SoloCalls, shape \in Shapes, request \in CallerRequests, path \in MethodPaths :
        GrpcCall(c, 1, shape, request, path)

SpecPrepare == PrepareInit /\ [][PrepareNext]_vars

\* C12: every request handed to the inner service, for each of the four call
\* shapes and whatever metadata the caller supplied, has method POST, version
\* HTTP/2, te: trailers and content-type: application/grpc; the caller's
\* values for these headers do not survive.
C12_MandatoryHeaders ==
    \A c \in Calls :
        calls[c].submitted.some =>
            LET http == calls[c].submitted.val IN
            /\ rpcs[c].http = Some(http)
            /\ http.method = "POST"
            /\ http.version = "HTTP/2"
            /\ http.te = Some("trailers")
            /\ http.content_type = Some("application/grpc")

C12_Witness ==
    \E c \in Calls :
        /\ rpcs[c].state = "awaiting"
        /\ rpcs[c].shape = "server_streaming"
        /\ rpcs[c].request.val.metadata.te = Some("deflate")
        /\ rpcs[c].request.val.metadata.content_type = Some("text/plain")
        /\ calls[c].submitted = rpcs[c].http

\* a path and query up to its query
UpToQuery(pnq) ==
    IF \E i \in DOMAIN pnq : pnq[i] = "?"
    THEN SubSeq(pnq, 1, (CHOOSE i \in DOMAIN pnq :
                            pnq[i] = "?" /\ \A j \in 1..(i - 1) : pnq[j] # "?") - 1)
    ELSE pnq

\* the path and query the URI of a request is to have
ComposedPath(origin, path) ==
    IF origin.path_and_query = <<>> \/ origin.path_and_query = <<"/">>
    THEN path
    ELSE UpToQuery(origin.path_and_query) \o path

\* C13: a call sends a request whose URI has a non-empty path: the method's
\* PathAndQuery unchanged if the origin has no path or its path and query is
\* exactly "/", otherwise the origin's path followed at once by the method's
\* PathAndQuery; scheme and authority are those of the origin.
C13_ComposedUri ==
    \A c \in Calls :
        rpcs[c].state # "idle" =>
            /\ rpcs[c].http.some
            /\ LET http == rpcs[c].http.val
                   origin == Grpc_config(rpcs[c].client).origin
               IN  /\ UpToQuery(http.path_and_query) # <<>>
                   /\ http.path_and_query = ComposedPath(origin, rpcs[c].path)
                   /\ http.origin = [scheme |-> origin.scheme, authority |-> origin.authority]

\* C14: when the client's configuration has a send-compression encoding the
\* request carries a grpc-encoding header naming it, and when at least one
\* accept-compression encoding is enabled the request carries a
\* grpc-accept-encoding header listing the enabled encodings.
C14_CompressionHeaders ==
    \A c \in Calls :
        rpcs[c].http.some =>
            LET http == rpcs[c].http.val
                config == Grpc_config(rpcs[c].client)
            IN  /\ calls[c].submitted = Some(http)
                /\ config.send_compression_encodings.some =>
                      http.grpc_encoding = Some(config.send_compression_encodings.val)
                /\ config.accept_compression_encodings # {} =>
                      /\ http.grpc_accept_encoding.some
                      /\ http.grpc_accept_encoding.val = config.accept_compression_encodings

C14_Witness ==
    \E c \in Calls :
        /\ rpcs[c].http.some
        /\ rpcs[c].request.val.metadata.grpc_encoding = Some("br")
        /\ rpcs[c].http.val.grpc_encoding = Some("gzip")
        /\ rpcs[c].http.val.grpc_accept_encoding = Some({"gzip", "zstd"})

(***************************************************************************)
(* The Grpc dispatcher: responses.                                         *)
(***************************************************************************)
\* Status: code, message and metadata
Status(code, message, metadata) ==
    [code |-> code, message |-> message, metadata |-> metadata]

\* Status::from_error_generic: the error of the deadline middleware is
\* DeadlineExceeded, a failure of the connection Unavailable, any other Unknown
Status_from_error_generic(err) ==
    CASE err = TimeoutExpired.val -> Status("DeadlineExceeded", err, {})
      [] err = TransportError.val -> Status("Unavailable", err, {})
      [] OTHER -> Status("Unknown", err, {})

\* frames of a response body: a message of some size, or bytes that are not
\* a frame
Message(message, size) == [malformed |-> FALSE, message |-> message, size |-> size]
Malformed == [malformed |-> TRUE, message |-> "", size |-> 0]

\* the frames of the response bodies
FrameSeqs ==
    { <<>>,
      <<Message("m1", 1)>>,
      <<Message("m1", 1), Message("m2", 1)>>,
      <<Message("m1", 1), Malformed>>,
      <<Malformed>>,
      <<Message("big", 5)>> }

\* the gRPC status codes a server answers with
ServerCodes == {"Ok", "NotFound"}

\* http::Response: headers that may carry grpc-status and grpc-encoding, and
\* a body of frames followed by trailers that may carry grpc-status
HttpResponses ==
    { [headers |-> [grpc_status |-> s, grpc_encoding |-> e, metadata |-> {"x-header"}],
       body |-> [frames |-> f,
                 trailers |-> [grpc_status |-> t, metadata |-> {"x-trailer"}]]] :
        s \in {None} \cup {Some(x) : x \in ServerCodes},
        e \in {None} \cup {Some(x) : x \in Encodings},
        f \in FrameSeqs,
        t \in {None} \cup {Some(x) : x \in ServerCodes} }

\* CompressionEncoding::from_encoding_header: the encoding of the response,
\* Unimplemented when the client has not enabled it
from_encoding_header(map, enabled_encodings) ==
    CASE ~map.grpc_encoding.some -> Ok(None)
      [] map.grpc_encoding.val \in enabled_encodings -> Ok(map.grpc_encoding)
      [] OTHER -> Err(Status("Unimplemented", map.grpc_encoding.val, {}))

\* Status::from_header_map: the status the headers carry, if any
Status_from_header_map(map) ==
    IF map.grpc_status.some THEN Some(Status(map.grpc_status.val, "", map.metadata))
    ELSE None

\* MetadataMap::merge
merge(metadata, other) == metadata \cup other

\* Streaming::new_response: a decoder over the body that expects trailers
Streaming_new_response(body, encoding, max_message_size) ==
    [mode |-> "response", body |-> body, encoding |-> encoding,
     max_message_size |-> max_message_size, trailers |-> None, done |-> FALSE]

\* Streaming::new_empty: a stream that ends at once
Streaming_new_empty(body) ==
    [mode |-> "empty", body |-> body, encoding |-> None,
     max_message_size |-> None, trailers |-> None, done |-> FALSE]

\* the Status the trailers end the stream with
TrailersStatus(trailers) ==
    IF trailers.grpc_status.some
    THEN Status(trailers.grpc_status.val, "", trailers.metadata)
    ELSE Status("Internal", "missing trailer status", trailers.metadata)

\* Streaming::try_next: the next message, the end of the stream, or the error
\* that ends it; reads counts the frames and trailers taken from the body
Streaming_try_next(stream) ==
    LET ended == [stream EXCEPT !.done = TRUE] IN
    CASE stream.done \/ stream.mode = "empty" ->
           [stream |-> ended, item |-> Ok(None), reads |-> 0]
      [] stream.body.frames # <<>> ->
           LET frame == Head(stream.body.frames) IN
           CASE frame.malformed ->
                  [stream |-> ended, item |-> Err(Status("Internal", "frame", {})),
                   reads |-> 1]
             [] stream.max_message_size.some /\ frame.size > stream.max_message_size.val ->
                  [stream |-> ended,
                   item |-> Err(Status("ResourceExhausted", "size", {})), reads |-> 1]
             [] OTHER ->
                  [stream |-> [stream EXCEPT !.body.frames = Tail(@)],
                   item |-> Ok(Some(frame.message)), reads |-> 1]
      [] OTHER ->
           IF stream.body.trailers.grpc_status = Some("Ok")
           THEN [stream |-> [ended EXCEPT !.trailers = Some(stream.body.trailers.metadata)],
                 item |-> Ok(None), reads |-> 1]
           ELSE [stream |-> ended, item |-> Err(TrailersStatus(stream.body.trailers)),
                 reads |-> 1]

\* Streaming::trailers: the trailers already met, or those at the end of the
\* body past the frames left, which are not decoded
Streaming_trailers(stream) ==
    LET ended == [stream EXCEPT !.done = TRUE, !.trailers = None, !.body.frames = <<>>] IN
    CASE stream.trailers.some ->
           [stream |-> ended, item |-> Ok(stream.trailers), reads |-> 0]
      [] stream.done \/ stream.mode = "empty" ->
           [stream |-> ended, item |-> Ok(None), reads |-> 0]
      [] stream.body.trailers.grpc_status = Some("Ok") ->
           [stream |-> ended, item |-> Ok(Some(stream.body.trailers.metadata)),
            reads |-> Len(stream.body.frames) + 1]
      [] OTHER ->
           [stream |-> ended, item |-> Err(TrailersStatus(stream.body.trailers)),
            reads |-> Len(stream.body.frames) + 1]

\* a variant that takes any encoding of the response
create_response_any_encoding(config, response) ==
    LET status == Status_from_header_map(response.headers)
        expect_additional_trailers == ~status.some
    IN  IF status.some /\ status.val.code # "Ok" THEN Err(status.val)
        ELSE Ok([metadata |-> response.headers.metadata,
                 stream |-> IF expect_additional_trailers
                            THEN Streaming_new_response(response.body,
                                     response.headers.grpc_encoding,
                                     config.max_decoding_message_size)
                            ELSE Streaming_new_empty(response.body)])

\* a variant that expects trailers after a status Ok in the headers
create_response_expect_trailers(config, response) ==
    LET encoding == from_encoding_header(response.headers,
                                         config.accept_compression_encodings)
        status == Status_from_header_map(response.headers)
    IN  CASE encoding.tag = "Err" -> encoding
          [] status.some /\ status.val.code # "Ok" -> Err(status.val)
          [] OTHER ->
               Ok([metadata |-> response.headers.metadata,
                   stream |-> Streaming_new_response(response.body, encoding.val,
                                  config.max_decoding_message_size)])

\* a variant that looks for the status in the headers before the encoding
create_response_status_first(config, response) ==
    LET encoding == from_encoding_header(response.headers,
                                         config.accept_compression_encodings)
        status == Status_from_header_map(response.headers)
        expect_additional_trailers == ~status.some
    IN  CASE status.some /\ status.val.code # "Ok" -> Err(status.val)
          [] status.some -> Ok([metadata |-> response.headers.metadata,
                                stream |-> Streaming_new_empty(response.body)])
          [] encoding.tag = "Err" -> encoding
          [] OTHER ->
               Ok([metadata |-> response.headers.metadata,
                   stream |-> Streaming_new_response(response.body, encoding.val,
                                  config.max_decoding_message_size)])

\* create_response, for the configuration the getters return: the encoding
\* first, then the status in the headers, then the stream over the body
create_response(config, response) ==
    LET encoding == from_encoding_header(response.headers,
                                         config.accept_compression_encodings)
        status == Status_from_header_map(response.headers)
        expect_additional_trailers == ~status.some
    IN  CASE encoding.tag = "Err" -> encoding
          [] status.some /\ status.val.code # "Ok" -> Err(status.val)
          [] OTHER ->
               Ok([metadata |-> response.headers.metadata,
                   stream |-> IF expect_additional_trailers
                              THEN Streaming_new_response(response.body, encoding.val,
                                       config.max_decoding_message_size)
                              ELSE Streaming_new_empty(response.body)])

\* a variant that reports every error of the inner service as Unknown
inner_call_unknown(output) ==
    IF output.tag = "Err" THEN Err(Status("Unknown", output.val, {})) ELSE output

\* streaming: `self.inner.call(request).await.map_err(Status::from_error_generic)`
inner_call(output) ==
    IF output.tag = "Err" THEN Err(Status_from_error_generic(output.val)) ELSE output

\* streaming, from the output of the inner service's future on
streaming(config, output) ==
    LET response == inner_call(output)
    IN  IF response.tag = "Err" THEN response
        ELSE create_response(config, response.val)

\* a variant that answers a stream without messages with an empty message
client_streaming_empty_message(streamed) ==
    IF streamed.tag = "Err" THEN [result |-> streamed, reads |-> 0]
    ELSE
      LET parts == streamed.val.metadata
          first == Streaming_try_next(streamed.val.stream)
          rest == Streaming_trailers(first.stream)
          reads == first.reads + rest.reads
      IN  CASE first.item.tag = "Err" ->
                 [result |-> Err([first.item.val EXCEPT !.metadata = merge(@, parts)]),
                  reads |-> first.reads]
            [] ~first.item.val.some ->
                 [result |-> Ok([metadata |-> parts, message |-> ""]),
                  reads |-> first.reads]
            [] rest.item.tag = "Err" -> [result |-> rest.item, reads |-> reads]
            [] OTHER ->
                 [result |-> Ok([metadata |-> IF rest.item.val.some
                                              THEN merge(parts, rest.item.val.val)
                                              ELSE parts,
                                 message |-> first.item.val.val]),
                  reads |-> reads]

\* a variant that returns the response without the trailers
client_streaming_no_trailers(streamed) ==
    IF streamed.tag = "Err" THEN [result |-> streamed, reads |-> 0]
    ELSE
      LET parts == streamed.val.metadata
          first == Streaming_try_next(streamed.val.stream)
      IN  CASE first.item.tag = "Err" ->
                 [result |-> Err([first.item.val EXCEPT !.metadata = merge(@, parts)]),
                  reads |-> first.reads]
            [] ~first.item.val.some ->
                 [result |-> Err(Status("Internal", "Missing response message.", {})),
                  reads |-> first.reads]
            [] OTHER ->
                 [result |-> Ok([metadata |-> parts, message |-> first.item.val.val]),
                  reads |-> first.reads]

\* client_streaming, from the result of streaming on: the first message, then
\* the trailers
client_streaming(streamed) ==
    IF streamed.tag = "Err" THEN [result |-> streamed, reads |-> 0]
    ELSE
      LET parts == streamed.val.metadata
          first == Streaming_try_next(streamed.val.stream)
          rest == Streaming_trailers(first.stream)
          reads == first.reads + rest.reads
      IN  CASE first.item.tag = "Err" ->
                 [result |-> Err([first.item.val EXCEPT !.metadata = merge(@, parts)]),
                  reads |-> first.reads]
            [] ~first.item.val.some ->
                 [result |-> Err(Status("Internal", "Missing response message.", {})),
                  reads |-> first.reads]
            [] rest.item.tag = "Err" -> [result |-> rest.item, reads |-> reads]
            [] OTHER ->
                 [result |-> Ok([metadata |-> IF rest.item.val.some
                                              THEN merge(parts, rest.item.val.val)
                                              ELSE parts,
                                 message |-> first.item.val.val]),
                  reads |-> reads]

\* the calls that return one message
SingleResponse == {"unary", "client_streaming"}

\* unary, client_streaming, server_streaming and streaming, from the moment
\* the inner service's future has resolved
GrpcResponse(c) ==
    /\ rpcs[c].state = "awaiting"
    /\ calls[c].state = "ready"
    /\ LET streamed == streaming(Grpc_config(rpcs[c].client), calls[c].output.val)
           returned == IF rpcs[c].shape \in SingleResponse
                       THEN client_streaming(streamed)
                       ELSE [result |-> streamed, reads |-> 0]
       IN  rpcs' = [rpcs EXCEPT ![c].state = "returned",
                                ![c].streamed = Some(streamed),
                                ![c].result = Some(returned.result),
                                ![c].body_reads = returned.reads]
    /\ UNCHANGED <<headers, parsed, overflow_checks, endpoint, modifier_fn, now, calls,
                   builder, grpc_config, configs, clients,
                   reconnect, transport>>

\* the caller asks the stream a call returned for its next message
StreamNext(c) ==
    /\ rpcs[c].state = "returned"
    /\ rpcs[c].shape \notin SingleResponse
    /\ rpcs[c].result.val.tag = "Ok"
    /\ ~rpcs[c].result.val.val.stream.done
    /\ LET next == Streaming_try_next(rpcs[c].result.val.val.stream)
       IN  rpcs' = [rpcs EXCEPT ![c].result.val.val.stream = next.stream,
                                ![c].delivered = Append(@, next.item),
                                ![c].body_reads = @ + next.reads]
    /\ UNCHANGED <<headers, parsed, overflow_checks, endpoint, modifier_fn, now, calls,
                   builder, grpc_config, configs, clients,
                   reconnect, transport>>

(***************************************************************************)
(* One call of a client over a Connection, whatever the server answers.    *)
(***************************************************************************)
\* the configurations of the client in these runs
AnswerConfigs ==
    { GrpcConfig(HttpUri(<<>>), a, None, d, None) :
        a \in {{}, {"gzip"}}, d \in {None} \cup {Some(n) : n \in SizeLimits} }

\* the requests of the caller in these runs: without and with grpc-timeout
AnswerRequests == {r \in CallerRequests : ~r.metadata.te.some}

GrpcAnswerInit ==
    /\ endpoint \in {PlainEndpoint(None), PlainEndpoint(Some(from_secs(<<2>>)))}
    /\ GrpcInit(AnswerConfigs)

GrpcAnswerNext ==
    \/ \E c \in SoloCalls, shape \in Shapes, request \in AnswerRequests :
          GrpcCall(c, 1, shape, request, <<"/", "svc", "/", "Method">>)
    \/ \E c \in SoloCalls : Poll(c)
    \/ \E c \in SoloCalls, response \in HttpResponses : Respond(c, Ok(response))
    \/ \E c \in SoloCalls : Respond(c, TransportError)
    \/ Tick
    \/ \E c \in SoloCalls : GrpcResponse(c)
    \/ \E c \in SoloCalls : StreamNext(c)

SpecGrpc == GrpcAnswerInit /\ [][GrpcAnswerNext]_vars

(***************************************************************************)
(* Properties of the dispatcher's handling of responses.                   *)
(***************************************************************************)
\* call c has returned, and the inner service had answered with a response
Answered(c) ==
    /\ rpcs[c].state = "returned"
    /\ calls[c].output.val.tag = "Ok"

\* the response the inner service answered call c with
Answer(c) == calls[c].output.val.val

\* the client of call c accepts the encoding the response names, if any
EncodingAccepted(c) ==
    Answer(c).headers.grpc_encoding.some =>
        Answer(c).headers.grpc_encoding.val
            \in Grpc_config(rpcs[c].client).accept_compression_encodings

\* the response stream of call c ends with status Ok and without a message:
\* an empty body and trailers with status Ok, or a status Ok in the headers
EndsWithoutMessage(c) ==
    /\ EncodingAccepted(c)
    /\ \/ Answer(c).headers.grpc_status = Some("Ok")
       \/ /\ ~Answer(c).headers.grpc_status.some
          /\ Answer(c).body.frames = <<>>
          /\ Answer(c).body.trailers.grpc_status = Some("Ok")

\* C15: a unary or client-streaming call whose response stream ends with
\* success and without a message fails with Status Internal, "Missing
\* response message."; it does not return a Response.
C15_MissingMessage ==
    \A c \in Calls :
        (Answered(c) /\ rpcs[c].shape \in SingleResponse /\ EndsWithoutMessage(c)) =>
            rpcs[c].result = Some(Err(Status("Internal", "Missing response message.", {})))

C15_Witness ==
    \E c \in Calls :
        /\ Answered(c)
        /\ rpcs[c].shape = "unary"
        /\ ~Answer(c).headers.grpc_status.some
        /\ Answer(c).body.frames = <<>>
        /\ Answer(c).body.trailers.grpc_status = Some("Ok")
        /\ rpcs[c].result.val.tag = "Err"
        /\ rpcs[c].result.val.val.code = "Internal"

\* the response stream of call c yields a message: no status in the headers
\* and a first frame that decodes within the size limit
YieldsMessage(c) ==
    /\ EncodingAccepted(c)
    /\ ~Answer(c).headers.grpc_status.some
    /\ Answer(c).body.frames # <<>>
    /\ ~Head(Answer(c).body.frames).malformed
    /\ LET limit == Grpc_config(rpcs[c].client).max_decoding_message_size
       IN  limit.some => Head(Answer(c).body.frames).size <= limit.val

\* the Response of the first message, with headers and trailers as metadata
FirstMessageResponse(c) ==
    Ok([metadata |-> Answer(c).headers.metadata \cup Answer(c).body.trailers.metadata,
        message |-> Head(Answer(c).body.frames).message])

\* C16, as claimed: a client-streaming (hence unary) call whose response
\* stream yields at least one message returns a Response with the first
\* message and the headers merged with the trailers; what follows the first
\* message changes neither the message nor the success of the call.
C16_FirstMessage ==
    \A c \in Calls :
        (Answered(c) /\ rpcs[c].shape \in SingleResponse /\ YieldsMessage(c)) =>
            rpcs[c].result = Some(FirstMessageResponse(c))

\* C16, amended: such a call returns that Response when the trailers carry
\* status Ok, whatever frames follow the first message; when reading the
\* trailers fails, because their status is missing or not Ok, the call fails
\* with that Status.
C16_FirstMessageThenTrailers ==
    \A c \in Calls :
        (Answered(c) /\ rpcs[c].shape \in SingleResponse /\ YieldsMessage(c)) =>
            IF Answer(c).body.trailers.grpc_status = Some("Ok")
            THEN rpcs[c].result = Some(FirstMessageResponse(c))
            ELSE /\ rpcs[c].result.val.tag = "Err"
                 /\ rpcs[c].result.val.val.code =
                       IF Answer(c).body.trailers.grpc_status.some
                       THEN Answer(c).body.trailers.grpc_status.val
                       ELSE "Internal"

C16_Witness ==
    \E c \in Calls :
        /\ Answered(c)
        /\ rpcs[c].shape = "client_streaming"
        /\ Answer(c).body.frames = <<Message("m1", 1), Message("m2", 1)>>
        /\ Answer(c).body.trailers.grpc_status = Some("Ok")
        /\ rpcs[c].result.val.tag = "Ok"
        /\ rpcs[c].result.val.val.message = "m1"
        /\ rpcs[c].body_reads = 3

\* the messages the stream returned by call c has yielded
Yielded(c) ==
    {i \in DOMAIN rpcs[c].delivered :
        rpcs[c].delivered[i].tag = "Ok" /\ rpcs[c].delivered[i].val.some}

\* what the claim says of a response, with or without a status in its headers
TrailerOnlyRule(c) ==
    LET status == Answer(c).headers.grpc_status
        streamed == rpcs[c].streamed.val
    IN  /\ status.some => rpcs[c].body_reads = 0
        /\ (status.some /\ status.val # "Ok") =>
              rpcs[c].result =
                  Some(Err(Status(status.val, "", Answer(c).headers.metadata)))
        /\ status = Some("Ok") =>
              /\ streamed.tag = "Ok"
              /\ streamed.val.stream.mode = "empty"
              /\ Yielded(c) = {}
        /\ (streamed.tag = "Ok" /\ streamed.val.stream.mode = "response") => ~status.some
        /\ (~status.some /\ streamed.tag = "Ok") => streamed.val.stream.mode = "response"

\* C17, as claimed: when the response headers carry a gRPC status the body
\* is never read; a status that is not Ok fails the call with exactly that
\* status, a status Ok returns an empty stream; only without a status in the
\* headers is the body wrapped in a decoder that expects trailers.
C17_TrailerOnly ==
    \A c \in Calls : Answered(c) => TrailerOnlyRule(c)

\* C17, amended: the same, for a response whose grpc-encoding header is
\* absent or names an encoding the client accepts; with any other encoding
\* the call fails with Unimplemented whatever the status in the headers, and
\* the body is not read either.
C17_TrailerOnlyAcceptedEncoding ==
    \A c \in Calls :
        Answered(c) =>
            IF EncodingAccepted(c) THEN TrailerOnlyRule(c)
            ELSE /\ rpcs[c].body_reads = 0
                 /\ rpcs[c].result.val.tag = "Err"
                 /\ rpcs[c].result.val.val.code = "Unimplemented"

C17_Witness ==
    \E c \in Calls :
        /\ Answered(c)
        /\ rpcs[c].shape = "streaming"
        /\ EncodingAccepted(c)
        /\ Answer(c).headers.grpc_status = Some("Ok")
        /\ Answer(c).body.frames = <<Message("m1", 1), Message("m2", 1)>>
        /\ rpcs[c].delivered = <<Ok(None)>>
        /\ rpcs[c].body_reads = 0

\* C18: a response whose grpc-encoding names an encoding the client has not
\* enabled fails the call with Status Unimplemented; no stream is returned
\* and nothing is read from the body.
C18_UnsupportedEncoding ==
    \A c \in Calls :
        (Answered(c) /\ ~EncodingAccepted(c)) =>
            /\ rpcs[c].result.val.tag = "Err"
            /\ rpcs[c].result.val.val.code = "Unimplemented"
            /\ rpcs[c].streamed.val.tag = "Err"
            /\ rpcs[c].body_reads = 0
            /\ rpcs[c].delivered = <<>>

C18_Witness ==
    \E c \in Calls :
        /\ Answered(c)
        /\ Answer(c).headers.grpc_encoding = Some("zstd")
        /\ Grpc_config(rpcs[c].client).accept_compression_encodings = {"gzip"}
        /\ ~Answer(c).headers.grpc_status.some
        /\ Answer(c).body.frames # <<>>
        /\ rpcs[c].result.val.val.code = "Unimplemented"

\* a Status
IsStatus(x) == DOMAIN x = {"code", "message", "metadata"}

\* C19: an error of the inner service's call reaches the caller as a Status,
\* so the four operations fail with a Status only, and a failed call builds
\* no response and no decoder; when the inner service has not answered and
\* the deadline has passed, the call fails with Status DeadlineExceeded.
C19_ErrorsAreStatus ==
    \A c \in Calls :
        rpcs[c].state = "returned" =>
            /\ rpcs[c].result.val.tag = "Err" => IsStatus(rpcs[c].result.val.val)
            /\ calls[c].output.val.tag = "Err" =>
                  /\ rpcs[c].result.val.tag = "Err"
                  /\ rpcs[c].streamed.val.tag = "Err"
                  /\ rpcs[c].body_reads = 0
                  /\ rpcs[c].delivered = <<>>
            /\ ~calls[c].response.some =>
                  /\ calls[c].computed.val.some
                  /\ DurLeq(calls[c].computed.val.val, from_secs(NatDigits(now)))
                  /\ rpcs[c].result.val.tag = "Err"
                  /\ rpcs[c].result.val.val.code = "DeadlineExceeded"

C19_Witness ==
    \E c \in Calls :
        /\ rpcs[c].state = "returned"
        /\ calls[c].send = "inflight"
        /\ ~calls[c].response.some
        /\ rpcs[c].result.val.tag = "Err"
        /\ rpcs[c].result.val.val.code = "DeadlineExceeded"

(***************************************************************************)
(* Clones of a client and the setters of its configuration.                *)
(***************************************************************************)
\* most GrpcConfig allocations in a run
MaxConfigs == 3

\* send_compressed, accept_compressed, max_decoding_message_size and
\* max_encoding_message_size: the clone of the configuration with the field set
Modified(config, setter, value) ==
    CASE setter = "send_compressed" ->
           [config EXCEPT !.send_compression_encodings = Some(value)]
      [] setter = "accept_compressed" ->
           [config EXCEPT !.accept_compression_encodings = @ \cup {value}]
      [] setter = "max_decoding_message_size" ->
           [config EXCEPT !.max_decoding_message_size = Some(value)]
      [] setter = "max_encoding_message_size" ->
           [config EXCEPT !.max_encoding_message_size = Some(value)]

\* the setters applied in the runs, with their arguments
Settings ==
    { <<"send_compressed", "gzip">>, <<"accept_compressed", "gzip">>,
      <<"max_decoding_message_size", 4>>, <<"max_encoding_message_size", 4>> }

\* a variant that writes through the shared Arc
set_config_shared(allocations, client, config) ==
    [configs |-> [allocations EXCEPT ![client.config] = config], client |-> client]

\* `self.config = Arc::new(config)`: a new allocation, held by this client only
set_config(allocations, client, config) ==
    [configs |-> Append(allocations, config),
     client |-> [client EXCEPT !.config = Len(allocations) + 1]]

\* a setter on client k, which takes the client by value: a no-op in a build
\* without the feature
Setter(k, setter, value) ==
    /\ clients[k].some
    /\ ~Borrowed(k)
    /\ Len(configs) < MaxConfigs
    /\ IF grpc_config
       THEN LET config == Modified(configs[clients[k].val.config], setter, value)
                set == set_config(configs, clients[k].val, config)
            IN  /\ configs' = set.configs
                /\ clients' = [clients EXCEPT ![k] = Some(set.client)]
       ELSE UNCHANGED <<configs, clients>>
    /\ UNCHANGED <<headers, parsed, overflow_checks, endpoint, modifier_fn, now, calls,
                   builder, grpc_config, rpcs,
                   reconnect, transport>>

\* Clone for Grpc: the clone holds the same Arc
GrpcClone(k, new) ==
    /\ clients[k].some
    /\ ~Borrowed(k)
    /\ ~clients[new].some
    /\ clients' = [clients EXCEPT ![new] = clients[k]]
    /\ UNCHANGED <<headers, parsed, overflow_checks, endpoint, modifier_fn, now, calls,
                   builder, grpc_config, configs, rpcs,
                   reconnect, transport>>

\* the response of the runs: compressed with gzip, one message of size 5
ConfigResponses ==
    { r \in HttpResponses :
        /\ ~r.headers.grpc_status.some
        /\ r.headers.grpc_encoding = Some("gzip")
        /\ r.body.frames = <<Message("big", 5)>>
        /\ r.body.trailers.grpc_status = Some("Ok") }

ConfigInit ==
    /\ endpoint = PlainEndpoint(None)
    /\ GrpcInit({GrpcConfig(HttpUri(<<>>), {}, None, None, None)})

ConfigNext ==
    \/ \E k \in Clients, new \in Clients : GrpcClone(k, new)
    \/ \E k \in Clients, s \in Settings : Setter(k, s[1], s[2])
    \/ \E c \in SoloCalls, k \in Clients, shape \in {"unary", "streaming"},
          request \in {r \in CallerRequests : r.metadata = Metadata(None, None, None, None)} :
          GrpcCall(c, k, shape, request, <<"/", "svc", "/", "Method">>)
    \/ \E c \in SoloCalls : Poll(c)
    \/ \E c \in SoloCalls, response \in ConfigResponses : Respond(c, Ok(response))
    \/ \E c \in SoloCalls : GrpcResponse(c)

SpecConfig == ConfigInit /\ [][ConfigNext]_vars

\* the configuration of client k has one more setting than before
OneSettingMore(k) ==
    \E s \in Settings : Grpc_config(k)' = Modified(Grpc_config(k), s[1], s[2])

\* C20: a setter applied to one client leaves the configuration that every
\* other client observes unchanged, clones made before included; the new
\* setting is observed by the client it was applied to only, from then on;
\* and a call uses the configuration its client had when the call started,
\* also for the response it handles later.
C20_CopyOnWrite ==
    /\ [][\A k \in Clients :
            (clients[k].some /\ clients'[k] = clients[k]) =>
                Grpc_config(k)' = Grpc_config(k)]_vars
    /\ [][\A k \in Clients :
            (clients[k].some /\ clients'[k] # clients[k]) =>
                (grpc_config /\ OneSettingMore(k))]_vars
    /\ [](\A c \in Calls :
            /\ rpcs[c].state = "awaiting" =>
                  Grpc_config(rpcs[c].client) = rpcs[c].config.val
            /\ rpcs[c].state = "returned" =>
                  rpcs[c].streamed = Some(streaming(rpcs[c].config.val, calls[c].output.val)))

C20_Witness ==
    \E c \in Calls :
        /\ rpcs[c].state = "returned"
        /\ rpcs[c].client = 1
        /\ clients[2].some
        /\ clients[2] # clients[1]
        /\ rpcs[c].config.val = Grpc_config(1)
        /\ Grpc_config(2).accept_compression_encodings = {"gzip"}
        /\ Grpc_config(2).max_decoding_message_size = Some(4)
        /\ rpcs[c].result.val.tag = "Err"
        /\ rpcs[c].result.val.val.code = "Unimplemented"

(***************************************************************************)
(* A Connection from its construction on: the connector and the handshake  *)
(* may fail, sessions may die, and the caller polls readiness before calls. *)
(***************************************************************************)
\* what a driver task's `conn.await` can resolve to
DriverOutcomes == {Ok("closed"), Err("driver")}

ReconnectInit ==
    /\ headers = None
    /\ parsed = None
    /\ overflow_checks = TRUE
    /\ endpoint = PlainEndpoint(None)
    /\ modifier_fn = StackModifiers(endpoint, [kind |-> "identity", pends |-> FALSE])
    /\ now = 0
    /\ calls = [c \in Calls |-> IdleCall]
    /\ builder = Built(endpoint, modifier_fn)
    /\ NoDispatcher
    /\ tasks = <<>>
    /\ \/ LET made == Connection_lazy(endpoint) IN
            /\ reconnect = made.rc
            /\ attempts = made.atts
            /\ connection = [how |-> "lazy", returned |-> Some(Ok("Connection")),
                             ready |-> None]
       \/ LET made == Connection_connect(endpoint) IN
            /\ reconnect = made.rc
            /\ attempts = made.atts
            /\ connection = [how |-> "connect", returned |-> None, ready |-> None]

\* Connection::poll_ready: ModifierFn and GrpcTimeout hand poll_ready to their
\* inner service, so the poll reaches the reconnect wrapper
Connection_poll_ready == Reconnect_poll_ready(reconnect, attempts, tasks)

\* `connect` is awaited: ready_oneshot polls the new Connection's readiness
\* and returns it, or the error
Connect ==
    /\ connection.how = "connect"
    /\ ~connection.returned.some
    /\ LET p == Connection_poll_ready IN
         /\ reconnect' = p.rc
         /\ attempts' = p.atts
         /\ tasks' = p.tks
         /\ connection' = [connection EXCEPT !.returned = ready_oneshot(p.ret),
                                             !.ready = Some(p.ret)]
    /\ UNCHANGED <<headers, parsed, overflow_checks, endpoint, modifier_fn, now, calls,
                   builder, dispatcher>>

\* the owner of the Connection polls its readiness
PollReady ==
    /\ connection.returned = Some(Ok("Connection"))
    /\ reconnect.state = "Idle" => Len(attempts) < MaxAttempts
    /\ LET p == Connection_poll_ready IN
         /\ reconnect' = p.rc
         /\ attempts' = p.atts
         /\ tasks' = p.tks
         /\ connection' = [connection EXCEPT !.ready = Some(p.ret)]
    /\ UNCHANGED <<headers, parsed, overflow_checks, endpoint, modifier_fn, now, calls,
                   builder, dispatcher>>

\* the connector's future resolves
ConnectorDone(outcome) ==
    /\ reconnect.state = "Connecting"
    /\ attempts[reconnect.future].stage = "connector"
    /\ ~attempts[reconnect.future].io.some
    /\ attempts' = [attempts EXCEPT ![reconnect.future].io = Some(outcome)]
    /\ UNCHANGED <<headers, parsed, overflow_checks, endpoint, modifier_fn, now, calls,
                   builder, dispatcher, reconnect, tasks, connection>>

\* the HTTP/2 handshake on the I/O resolves
HandshakeDone(outcome) ==
    /\ reconnect.state = "Connecting"
    /\ attempts[reconnect.future].stage = "handshake"
    /\ ~attempts[reconnect.future].handshake.some
    /\ attempts' = [attempts EXCEPT ![reconnect.future].handshake = Some(outcome)]
    /\ UNCHANGED <<headers, parsed, overflow_checks, endpoint, modifier_fn, now, calls,
                   builder, dispatcher, reconnect, tasks, connection>>

\* the executor runs a driver task to its end: the session is gone
DriverEnd(i, outcome) ==
    /\ i \in DOMAIN tasks
    /\ tasks[i].state = "running"
    /\ tasks' = [tasks EXCEPT ![i] = DriverTask_end(@, outcome)]
    /\ UNCHANGED <<headers, parsed, overflow_checks, endpoint, modifier_fn, now, calls,
                   builder, dispatcher, reconnect, attempts, connection>>

\* the request of the calls of this specification
ReconnectRequests == {Request(None, "caller", None)}

ReconnectNext ==
    \/ Connect
    \/ PollReady
    \/ \E outcome \in ConnectorOutcomes : ConnectorDone(outcome)
    \/ \E outcome \in HandshakeOutcomes : HandshakeDone(outcome)
    \/ \E i \in 1..MaxAttempts, outcome \in DriverOutcomes : DriverEnd(i, outcome)
    \/ \E c \in Calls, req \in ReconnectRequests : ConnectionCall(c, req)
    \/ \E c \in Calls : Poll(c)
    \/ \E c \in Calls, r \in {HttpResponse, SessionClosed} : Respond(c, r)

SpecReconnect == ReconnectInit /\ [][ReconnectNext]_vars

(***************************************************************************)
(* Properties of the reconnect wrapper and the connection factory.         *)
(***************************************************************************)
\* the factory's futures that resolved to a SendRequest
SessionMade(a) == attempts[a].output.some /\ attempts[a].output.val.tag = "Ok"

\* C21: a Connection made with `lazy` has its reconnect wrapper Idle and no
\* connector call until its readiness is polled for the first time.  One made
\* with `connect` has called the connector from the start and is Connecting
\* until its readiness is polled; `connect` returns nothing while the session
\* is not established, returns the Connection only with the wrapper having
\* become Ready on the session of the first attempt, and returns the error of
\* the connector or of the handshake when that attempt fails.
C21_LazyAndEager ==
    /\ (connection.how = "lazy" /\ ~connection.ready.some)
          => reconnect.state = "Idle" /\ attempts = <<>>
    /\ connection.how = "connect" =>
          /\ Len(attempts) >= 1
          /\ attempts[1].uri = endpoint.uri
          /\ ~connection.ready.some => reconnect.state = "Connecting" /\ reconnect.future = 1
          /\ ~attempts[1].output.some => ~connection.returned.some
          /\ connection.returned = Some(Ok("Connection")) =>
                /\ SessionMade(1)
                /\ connection.ready.some
          /\ (connection.returned.some /\ connection.returned.val.tag = "Err") =>
                /\ connection.returned = attempts[1].output
                /\ connection.returned.val \in {Err("connect"), Err("handshake")}
                /\ tasks = <<>>

\* `connect` returned the error of a failed handshake
C21_Witness ==
    /\ connection.how = "connect"
    /\ connection.returned = Some(Err("handshake"))
    /\ attempts[1].handshake = Some(Err("handshake"))

\* the wrapper holds a future exactly when Connecting and a SendRequest exactly
\* when Ready
OneReconnectState ==
    /\ reconnect.state \in {"Idle", "Connecting", "Ready"}
    /\ reconnect.state = "Connecting" <=> reconnect.future # 0
    /\ reconnect.state = "Ready" <=> reconnect.send # 0
    /\ reconnect.state = "Connecting" =>
          /\ reconnect.future = Len(attempts)
          /\ ~attempts[reconnect.future].output.some
    /\ reconnect.state = "Ready" => SessionMade(reconnect.send)

\* C22: the wrapper is always in exactly one of Idle, Connecting and Ready.
\* It leaves Connecting only when its connection attempt resolves: to Ready
\* with the SendRequest of that attempt when the attempt succeeds (poll_ready
\* returns ready), and to Idle when the attempt fails, the poll_ready that saw
\* the failure returning the error.  When poll_ready finds the wrapper Idle it
\* starts a fresh attempt: a new call of the factory with the target.
C22_ConnectingOutcome ==
    /\ []OneReconnectState
    /\ [][reconnect.state = "Connecting" =>
            LET a == reconnect.future IN
            /\ reconnect'.state # "Connecting" <=> attempts'[a].output.some
            /\ attempts'[a].output.some =>
                 IF attempts'[a].output.val.tag = "Ok"
                 THEN /\ reconnect'.state = "Ready"
                      /\ reconnect'.send = a
                      /\ connection'.ready = Some(Ok("ready"))
                 ELSE /\ reconnect'.state = "Idle"
                      /\ attempts'[a].output \in {attempts'[a].io, attempts'[a].handshake}
                      /\ connection'.ready = attempts'[a].output]_vars
    /\ [][(reconnect.state = "Idle" /\ reconnect' # reconnect) =>
            /\ reconnect'.state = "Connecting"
            /\ attempts' = Append(attempts, MakeSendRequestService_call(reconnect.target))
            /\ reconnect'.future = Len(attempts')]_vars

\* a first attempt failed at the connector, poll_ready returned the error, and
\* a later poll_ready made a second attempt that reached Ready
C22_Witness ==
    /\ Len(attempts) = 2
    /\ attempts[1].output = Some(Err("connect"))
    /\ reconnect.state = "Ready"
    /\ reconnect.send = 2

\* call c resolved with the error of a dead session
FailedOnDeadSession(c) ==
    /\ calls[c].state = "ready"
    /\ calls[c].output.some
    /\ IsSessionClosed(calls[c].output.val)

\* C23: a call whose request meets a dead session resolves to that error, and
\* its request has been handed to a session once, never again.  When the
\* error comes from the SendRequest the wrapper holds, the wrapper is Idle
\* afterwards.  A call started after such a failure starts with the wrapper
\* Ready, which from Idle takes poll_ready through Connecting, and its
\* request goes to the SendRequest of a later connection attempt than the one
\* that failed: a session established anew.
C23_NoRetryThenReconnect ==
    /\ [](\A c \in Calls :
            /\ Len(calls[c].sent) <= 1
            /\ (calls[c].state = "ready" /\ calls[c].response.some
                  /\ IsSessionClosed(calls[c].response.val)) => FailedOnDeadSession(c)
            /\ FailedOnDeadSession(c) =>
                  /\ Len(calls[c].sent) = 1
                  /\ ~SessionAlive(calls[c].session)
                  /\ reconnect.send # calls[c].session)
    /\ [][\A c \in Calls :
            /\ (~FailedOnDeadSession(c) /\ FailedOnDeadSession(c)'
                  /\ reconnect.send = calls[c].session) => reconnect'.state = "Idle"
            /\ FailedOnDeadSession(c) => calls'[c] = calls[c]
            /\ (calls[c].state = "idle" /\ calls'[c].state # "idle") =>
                  /\ reconnect.state = "Ready"
                  /\ calls'[c].session = reconnect.send
                  /\ SessionMade(calls'[c].session)
                  /\ \A d \in Calls : FailedOnDeadSession(d) =>
                        calls'[c].session > calls[d].session]_vars
    /\ [][(reconnect.state = "Idle" /\ reconnect' # reconnect) =>
            reconnect'.state = "Connecting"]_vars

\* the first call failed on the dead session 1 and the second got a response
\* on session 2
C23_Witness ==
    /\ FailedOnDeadSession(1)
    /\ calls[1].session = 1
    /\ calls[2].session = 2
    /\ calls[2].output = Some(HttpResponse)
    /\ Len(calls[1].sent) = 1
    /\ Len(calls[2].sent) = 1

\* what one invocation of the factory does, in order
FactorySteps == <<"connector", "handshake", "spawn", "return">>

\* the driver tasks of the session of attempt a
DriversOf(a) == {i \in DOMAIN tasks : tasks[i].session = a}

FactoryFailed(a) ==
    \/ attempts[a].io.some /\ attempts[a].io.val.tag = "Err"
    \/ attempts[a].handshake.some /\ attempts[a].handshake.val.tag = "Err"

\* C24: every invocation of the connection factory does a prefix of:
\* connector call, handshake, spawn of the driver task, return of the
\* SendRequest, in this order; the handshake runs on the I/O the connector
\* yielded.  It returns a SendRequest, bound to its own session, exactly when
\* it got through all four, with exactly one driver task spawned.  When the
\* connector or the handshake fails the future resolves to that error and no
\* driver task exists.  Once the future has resolved its output never
\* changes: a driver task that ends in an error has the error logged and
\* nothing else.
C24_FactoryOrder ==
    /\ [](\A a \in DOMAIN attempts :
            /\ IsPrefix(attempts[a].trace, FactorySteps)
            /\ Len(attempts[a].trace) >= 1
            /\ attempts[a].uri = endpoint.uri
            /\ Occurs(attempts[a].trace, "handshake") =>
                  attempts[a].io = Some(Ok("io"))
            /\ Cardinality(DriversOf(a)) = IF Occurs(attempts[a].trace, "spawn") THEN 1 ELSE 0
            /\ SessionMade(a) <=> attempts[a].trace = FactorySteps
            /\ SessionMade(a) => attempts[a].output = Some(SendRequest_from(a))
            /\ FactoryFailed(a) =>
                  /\ DriversOf(a) = {}
                  /\ attempts[a].stage = "done" =>
                        attempts[a].output \in {attempts[a].io, attempts[a].handshake}
                           /\ attempts[a].output.val.tag = "Err")
    /\ [](\A i \in DOMAIN tasks :
            (tasks[i].result.some /\ tasks[i].result.val.tag = "Err")
               <=> tasks[i].logged = <<"connection task error">>)
    /\ [][\A a \in DOMAIN attempts :
            attempts[a].output.some =>
               /\ attempts'[a] = attempts[a]
               /\ \A i \in DriversOf(a) : tasks[i].state = "running" =>
                     \/ tasks'[i] = tasks[i]
                     \/ /\ tasks'[i].state = "finished"
                        /\ UNCHANGED <<attempts, reconnect, connection, calls>>]_vars

\* the driver of an established session ended in an error, which was logged,
\* and the factory's future still holds the SendRequest it returned
C24_Witness ==
    /\ Len(attempts) >= 1
    /\ SessionMade(1)
    /\ \E i \in DriversOf(1) : tasks[i].result = Some(Err("driver"))

(***************************************************************************)
(* One call that the caller may drop before it resolves.                   *)
(***************************************************************************)
\* the caller drops the response future of a call
Drop(c) ==
    /\ calls[c].state = "pending"
    /\ calls' = [calls EXCEPT ![c] = ResponseFuture_drop(@)]
    /\ UNCHANGED <<headers, parsed, overflow_checks, endpoint, modifier_fn, now, builder, dispatcher, reconnect, transport>>

CancelNext ==
    \/ \E c \in SoloCalls, req \in Requests : ConnectionCall(c, req)
    \/ \E c \in SoloCalls, req \in Requests : GrpcTimeoutCall(c, req)
    \/ \E c \in SoloCalls : Poll(c)
    \/ \E c \in SoloCalls : ModifierComplete(c)
    \/ \E c \in SoloCalls, r \in {HttpResponse, TransportError} : Respond(c, r)
    \/ \E c \in SoloCalls : Drop(c)
    \/ Tick

SpecCancel == Init /\ [][CancelNext]_vars

\* the call is over for its caller
Cancelled(c) == calls[c].dropped \/ calls[c].output = Some(TimeoutExpired)

\* C25: from the moment the caller dropped the response future of a call, or
\* the future resolved to TimeoutExpired, no step changes anything of the
\* call: no modifier is called, no modifier future is polled or yields, no
\* deadline is computed, and a request that was not sent is not sent.
C25_NothingAfterCancel ==
    /\ [][\A c \in Calls : Cancelled(c) =>
            /\ calls'[c].trace = calls[c].trace
            /\ calls'[c].inputs = calls[c].inputs
            /\ calls'[c].outputs = calls[c].outputs
            /\ calls'[c].pc = calls[c].pc
            /\ calls'[c].running = calls[c].running
            /\ calls'[c].sent = calls[c].sent
            /\ calls'[c].send = calls[c].send
            /\ calls'[c].output = calls[c].output]_vars
    /\ [](\A c \in Calls : calls[c].dropped =>
            /\ ~calls[c].running
            /\ ~calls[c].output.some
            /\ calls[c].send \in {"no", "cancelled"}
            /\ calls[c].send = "no" <=> calls[c].sent = <<>>)

\* a call dropped while the future of the user-supplied modifier was pending:
\* the request was never sent, and time went on afterwards
C25_Witness ==
    /\ calls[1].dropped
    /\ calls[1].trace = <<"AddOrigin", "UserAgent", "Custom">>
    /\ calls[1].sent = <<>>
    /\ now = MaxClock

(***************************************************************************)
(* Properties of calls in flight together.                                 *)
(***************************************************************************)
\* what call c has of its own: its deadline comes from its own request, its
\* timer from its own deadline, its outcome from its own timer or its own
\* response
OwnDeadlineAndOutcome(c) ==
    LET cr == calls[c] IN
    /\ cr.state # "panicked"
    /\ cr.state # "idle" => cr.session = reconnect.send
    /\ cr.computed.some =>
          IsIntersection(cr.computed.val, HeaderSeconds(cr.request.timeout), endpoint.timeout)
    /\ cr.sleep.tag = "Yes" => SleepDeadline(cr) = cr.computed.val
    /\ cr.output = Some(TimeoutExpired) =>
          /\ SleepDeadline(cr).some
          /\ Elapsed(cr.sleep.timer.val, now)
          /\ ~cr.inner_out.some
    /\ (cr.output.some /\ cr.output # Some(TimeoutExpired)) => cr.output = cr.response
    /\ cr.chan = "closed" => cr.state # "pending"

\* C26: with two calls on one Connection, in every interleaving, a step of
\* one call (its start, a poll, its modifier future becoming ready, its
\* response or failure) leaves the other call exactly as it was, and the
\* passing of time changes neither.  Each call's deadline, timer and outcome
\* are those of its own request and response, and no call panics.
C26_IndependentCalls ==
    /\ [][\A c, d \in Calls :
            (c # d /\ calls'[c] # calls[c]) => calls'[d] = calls[d]]_vars
    /\ [][now' # now => calls' = calls]_vars
    /\ [](\A c \in Calls : OwnDeadlineAndOutcome(c))

\* one call timed out and the other, with the same modifier and ceiling, got
\* its response
C26_Witness ==
    /\ calls[1].variant = "async_call"
    /\ calls[2].variant = "async_call"
    /\ calls[1].output = Some(TimeoutExpired)
    /\ calls[2].output = Some(HttpResponse)
    /\ calls[1].request.timeout = Some(h1S)
    /\ calls[2].request.timeout = None

(***************************************************************************)
(* Properties of the oneshot channel between the request future and the    *)
(* sleep future of GrpcTimeout::async_call.                                *)
(***************************************************************************)
Async(c) == calls[c].variant = "async_call"

\* how often x occurs in a sequence
Times(seq, x) == Cardinality({i \in DOMAIN seq : seq[i] = x})

\* the step of the request future that computes and sends the deadline
DeadlineIndex(cr) == CHOOSE k \in 1..Len(cr.steps) : cr.steps[k].kind = "deadline"

\* C27: in a call through async_call the deadline is computed and sent when
\* the request future has resolved, that is after every modifier in front of
\* the deadline middleware has yielded, and at most once; the channel goes
\* from empty to holding the value to emptied by the receiver, never back.
\* The sleep future starts as SleepKnown::No, becomes SleepKnown::Yes in the
\* poll that receives the value, with the deadline that was sent, and from
\* then on stays the same.
C27_DeadlineSentOnce ==
    /\ [](\A c \in Calls : Async(c) =>
            LET cr == calls[c] IN
            /\ Times(cr.trace, "Deadline") = (IF cr.computed.some THEN 1 ELSE 0)
            /\ cr.chan = "open" <=> ~cr.computed.some
            /\ cr.chan_val.some <=> cr.chan = "full"
            /\ cr.chan = "full" => cr.chan_val = cr.computed
            /\ cr.computed.some =>
                  /\ cr.pc > DeadlineIndex(cr)
                  /\ \A k \in ModifierSteps(cr) :
                        k < DeadlineIndex(cr) => Count(cr.outputs, cr.steps[k].f.name) = 1
                  /\ cr.outputs # <<>> /\ cr.outputs[Len(cr.outputs)][2] = cr.request
            /\ cr.sleep.tag \in {"No", "Yes"}
            /\ cr.sleep.tag = "Yes" <=> cr.chan = "taken"
            /\ cr.sleep.tag = "Yes" => SleepDeadline(cr) = cr.computed.val)
    /\ [][\A c \in Calls :
            /\ (calls[c].state = "idle" /\ Async(c)') =>
                  calls'[c].sleep = SleepNo /\ calls'[c].chan = "open"
            /\ Async(c) =>
                  /\ calls[c].computed.some => calls'[c].computed = calls[c].computed
                  /\ calls[c].chan = "full" => calls'[c].chan \in {"full", "taken"}
                  /\ calls[c].chan = "taken" => calls'[c].chan = "taken"
                  /\ calls[c].sleep.tag = "Yes" => calls'[c].sleep = calls[c].sleep
                  /\ (calls[c].sleep.tag = "No" /\ calls'[c].sleep.tag = "Yes") =>
                        /\ "value" \notin calls[c].rx_polls
                        /\ "value" \in calls'[c].rx_polls
                        /\ calls'[c].sleep = SleepYes(calls'[c].computed.val, now)]_vars

\* the modifier's future was pending at the first poll; the deadline was sent
\* and received in a later poll, at a later time, and the timer runs since
C27_Witness ==
    /\ Async(1)
    /\ Pending(1)
    /\ calls[1].rx_polls = {"pending", "value"}
    /\ calls[1].sleep.tag = "Yes"
    /\ calls[1].sleep.timer.some
    /\ calls[1].sleep.timer.val.start = 1
    /\ now = 2

\* C28: in a call through async_call, every poll of the oneshot receiver by
\* the sleep future finds the deadline in the channel and returns it: the
\* receiver is never pending, whatever the modifiers.
C28_ReceiverNeverPending ==
    \A c \in Calls : Async(c) => calls[c].rx_polls \subseteq {"value"}

\* C29: in a call through the stack, the sleep future never finds the oneshot
\* channel closed without a value, so the call never panics; the sender is
\* gone without having sent only in a call that the caller dropped or whose
\* inner future has completed.
C29_ChannelNeverClosed ==
    \A c \in Calls :
        /\ calls[c].state # "panicked"
        /\ "closed" \notin calls[c].rx_polls
        /\ calls[c].chan = "closed" =>
              \/ calls[c].dropped
              \/ calls[c].inner_out.some

\* a call dropped while its modifier's future was pending: the sender went
\* without sending, after the receiver had been polled
C29_Witness ==
    /\ Async(1)
    /\ calls[1].dropped
    /\ calls[1].chan = "closed"
    /\ ~calls[1].computed.some
    /\ calls[1].rx_polls = {"pending"}

(***************************************************************************)
(* The two entries of the deadline middleware over the send endpoint, run  *)
(* side by side: call 1 is made with GrpcTimeout::call(req), call 2 with   *)
(* GrpcTimeout::async_call(async move { req }); both are polled at the     *)
(* same times and their sends get the same answers.                        *)
(***************************************************************************)
\* GrpcTimeout::call(req) at time t: the deadline is computed from req and the
\* timer is created in the call; `self.inner.call(req)` is SendRequest::call,
\* which is async_call of a ready future
GrpcTimeout_call(req, server_timeout, session, t, checks) ==
    LET parse == try_parse_grpc_timeout(req.timeout, checks)
        dur == timeout_duration(client_timeout(parse), server_timeout)
    IN  IF parse.tag = "Panic"
        THEN [IdleCall EXCEPT !.state = "panicked", !.variant = "call",
                              !.submitted = Some(req)]
        ELSE [IdleCall EXCEPT !.state = "pending",
                              !.variant = "call",
                              !.submitted = Some(req),
                              !.request = req,
                              !.built = <<"GrpcTimeout", "SendRequest">>,
                              !.steps = <<SendRequest_async_call>>,
                              !.session = session,
                              !.computed = Some(dur),
                              !.trace = <<"Deadline">>,
                              !.sleep = SleepYes(dur, t)]

\* GrpcTimeout::async_call(async move { req }): the `call` block and the send
\* run when the ResponseFuture is polled; the sleep future holds the receiver
GrpcTimeout_async_call_ready(req, server_timeout, session) ==
    [IdleCall EXCEPT !.state = "pending",
                     !.variant = "async_call",
                     !.submitted = Some(req),
                     !.request = req,
                     !.built = <<"GrpcTimeout", "SendRequest">>,
                     !.steps = <<GrpcTimeout_async_call(server_timeout),
                                 SendRequest_async_call>>,
                     !.session = session,
                     !.chan = "open",
                     !.sleep = SleepNo]

\* the same request is passed to both entries at the same time
EquivCall(req) ==
    /\ \A c \in Calls : calls[c].state = "idle"
    /\ reconnect.state = "Ready"
    /\ calls' = [c \in Calls |->
         IF c = 1
         THEN GrpcTimeout_call(req, endpoint.timeout, reconnect.send, now, overflow_checks)
         ELSE GrpcTimeout_async_call_ready(req, endpoint.timeout, reconnect.send)]
    /\ UNCHANGED <<headers, parsed, overflow_checks, endpoint, modifier_fn, now, builder, dispatcher, reconnect, transport>>

\* the executor polls the response futures that are pending, at the same time
\* and with the same answer of the inner service
EquivPoll ==
    /\ \E c \in Calls : calls[c].state = "pending"
    /\ \E imm \in Immediate("call") :
         calls' = [c \in Calls |->
           IF calls[c].state = "pending"
           THEN ResponseFuture_poll(calls[c], imm, now, overflow_checks)
           ELSE calls[c]]
    /\ UNCHANGED <<headers, parsed, overflow_checks, endpoint, modifier_fn, now, builder, dispatcher, reconnect, transport>>

\* the inner service gives the same answer to the sends that wait for one
EquivRespond(r) ==
    LET waits(c) == /\ calls[c].state = "pending"
                    /\ calls[c].send = "inflight"
                    /\ ~calls[c].response.some
    IN  /\ \E c \in Calls : waits(c)
        /\ calls' = [c \in Calls |->
             IF waits(c) THEN [calls[c] EXCEPT !.response = Some(r)] ELSE calls[c]]
        /\ UNCHANGED <<headers, parsed, overflow_checks, endpoint, modifier_fn, now, builder, dispatcher, reconnect, transport>>

EquivNext ==
    \/ \E req \in Requests : EquivCall(req)
    \/ EquivPoll
    \/ \E r \in {HttpResponse, TransportError} : EquivRespond(r)
    \/ Tick

SpecEquiv == Init /\ [][EquivNext]_vars

\* the response future of the call has been polled
Polled(c) == calls[c].pc > 1 \/ calls[c].state = "panicked"

\* C30: GrpcTimeout::call(req) over the send endpoint is equivalent to
\* GrpcTimeout::async_call of a ready future that yields req: once both
\* response futures have been polled, the two calls have sent the same
\* request, applied the same deadline and have the same outcome, for every
\* request and every behaviour of the inner service.
C30_CallIsAsyncCallOfReady ==
    (calls[1].variant = "call" /\ calls[2].variant = "async_call"
        /\ Polled(1) /\ Polled(2)) =>
       /\ calls[1].sent = calls[2].sent
       /\ calls[1].computed = calls[2].computed
       /\ calls[1].state = calls[2].state
       /\ calls[1].output = calls[2].output

\* the call is awaiting the future of a modifier, which is not ready
ModifierPending(c) ==
    calls[c].state = "pending" /\ calls[c].running /\ ~calls[c].mod_ready

C32_DeadlineFromModifiedRequest ==
    \A c \in Calls :
        LET cr == calls[c] IN
        (Async(c) /\ cr.built = Stack(endpoint) /\ cr.computed.some) =>
            /\ Len(cr.outputs) = Cardinality(ModifierLayers)
            /\ cr.outputs[Len(cr.outputs)][1] = "Custom"
            /\ IsIntersection(cr.computed.val, HeaderSeconds(FinalRequest(cr).timeout),
                              endpoint.timeout)

\* a request submitted without grpc-timeout to an endpoint without timeout,
\* given a header of one second by the modifier, times out after that second
C32_Witness ==
    /\ Async(1)
    /\ calls[1].built = Stack(endpoint)
    /\ ~calls[1].submitted.val.timeout.some
    /\ ~endpoint.timeout.some
    /\ modifier_fn["Custom"].captured.kind = "set_timeout"
    /\ calls[1].computed = Some(Some(from_secs(<<1>>)))
    /\ calls[1].output = Some(TimeoutExpired)

\* C33: the response future polls the inner future before the sleep future:
\* a poll in which the inner future is ready returns the inner result, also
\* when the deadline has elapsed by then, and a call that ended with
\* TimeoutExpired had no answer of the inner future.
C33_InnerBeforeTimer ==
    /\ [](\A c \in Calls : calls[c].output = Some(TimeoutExpired) =>
            /\ ~calls[c].response.some
            /\ ~calls[c].inner_out.some)
    /\ [][\A c \in Calls :
            (calls[c].state = "pending" /\ calls'[c].state = "ready"
                /\ calls'[c].response.some) =>
               /\ calls'[c].output = calls'[c].response
               /\ calls'[c].inner_out = calls'[c].response]_vars

\* a request with grpc-timeout 0S whose inner future is ready with a response
\* in the first poll: the timer of zero seconds has elapsed, the response is
\* returned
C33_Witness ==
    /\ calls[1].variant = "call"
    /\ calls[1].submitted.val.timeout = Some(h0S)
    /\ calls[1].sleep.tag = "Yes"
    /\ calls[1].sleep.timer.some
    /\ Elapsed(calls[1].sleep.timer.val, calls[1].sleep.timer.val.start)
    /\ calls[1].output = Some(HttpResponse)
    /\ calls[1].resolved = 1

\* C34: create_response checks the encoding before the status in the
\* headers: a response with a grpc-encoding the client has not enabled and a
\* status in its headers fails with Unimplemented; with a status that is not
\* Ok the call does not fail with the server's status, with status Ok no
\* empty stream is returned.
C34_EncodingBeforeStatus ==
    \A c \in Calls :
        LET status == Answer(c).headers.grpc_status IN
        (Answered(c) /\ ~EncodingAccepted(c) /\ status.some) =>
            /\ rpcs[c].streamed =
                  Some(Err(Status("Unimplemented", Answer(c).headers.grpc_encoding.val, {})))
            /\ rpcs[c].result.val.tag = "Err"
            /\ rpcs[c].result.val.val.code = "Unimplemented"
            /\ rpcs[c].result.val.val.code # status.val
            /\ rpcs[c].delivered = <<>>

\* a response with status NotFound and the encoding zstd in its headers, to
\* a client that accepts gzip only
C34_Witness ==
    \E c \in Calls :
        /\ Answered(c)
        /\ Answer(c).headers.grpc_encoding = Some("zstd")
        /\ Grpc_config(rpcs[c].client).accept_compression_encodings = {"gzip"}
        /\ Answer(c).headers.grpc_status = Some("NotFound")
        /\ rpcs[c].result.val.tag = "Err"
        /\ rpcs[c].result.val.val.code = "Unimplemented"

(***************************************************************************)
(* Endpoints with and without an override origin, connected lazily or      *)
(* eagerly, with sessions that fail and are made again.                    *)
(***************************************************************************)
\* Endpoint.origin: None, or the Uri given to Endpoint::origin
OriginEndpoints ==
    {[PlainEndpoint(None) EXCEPT !.origin = o] : o \in {None, Some("override-origin")}}

OriginInit ==
    /\ headers = None
    /\ parsed = None
    /\ overflow_checks = TRUE
    /\ endpoint \in OriginEndpoints
    /\ modifier_fn = StackModifiers(endpoint, [kind |-> "identity", pends |-> FALSE])
    /\ now = 0
    /\ calls = [c \in Calls |-> IdleCall]
    /\ builder = Built(endpoint, modifier_fn)
    /\ NoDispatcher
    /\ tasks = <<>>
    /\ \/ LET made == Connection_lazy(endpoint) IN
            /\ reconnect = made.rc
            /\ attempts = made.atts
            /\ connection = [how |-> "lazy", returned |-> Some(Ok("Connection")),
                             ready |-> None]
       \/ LET made == Connection_connect(endpoint) IN
            /\ reconnect = made.rc
            /\ attempts = made.atts
            /\ connection = [how |-> "connect", returned |-> None, ready |-> None]

SpecOrigin == OriginInit /\ [][ReconnectNext]_vars

\* the origin AddOrigin gives to the requests of the Connection
RequestOrigin == IF endpoint.origin.some THEN endpoint.origin.val ELSE endpoint.uri

\* C35: the override origin of an endpoint is used by AddOrigin only: every
\* request is sent with the override origin if there is one and with the
\* endpoint's URI otherwise, and the reconnect wrapper calls the connection
\* factory with the endpoint's URI in the first attempt and in every later
\* one.
C35_OriginOnlyRewrites ==
    /\ reconnect.target = endpoint.uri
    /\ \A a \in DOMAIN attempts : attempts[a].uri = endpoint.uri
    /\ \A c \in Calls : \A i \in DOMAIN calls[c].sent :
          calls[c].sent[i].origin = RequestOrigin
    /\ modifier_fn["AddOrigin"].captured = RequestOrigin

\* an endpoint with an override origin whose first session died: the second
\* attempt dialled the endpoint's URI as the first did, and the request of a
\* call on the second session carries the override origin
C35_Witness ==
    /\ endpoint.origin = Some("override-origin")
    /\ Len(attempts) = 2
    /\ attempts[1].uri = "endpoint-uri"
    /\ attempts[2].uri = "endpoint-uri"
    /\ SessionMade(2)
    /\ calls[2].session = 2
    /\ Len(calls[2].sent) = 1
    /\ calls[2].sent[1].origin = "override-origin"

====
